---- MODULE Spec2Model ----
(***************************************************************************)
(* Lattice backend: the room hub (ws), its write-through to the SQLite     *)
(* store (db) and the compaction service (compaction).                     *)
(*                                                                         *)
(* Two specifications share the variables:                                 *)
(*   Spec      - the hub scheduler (Hub.Run) with the client pumps and the *)
(*               write-through to the store;                               *)
(*   SpecStore - the store under SaveUpdate calls and compaction passes.   *)
(***************************************************************************)
EXTENDS Integers, Sequences, FiniteSets, TLC

(***************************************************************************)
(* Bounds of the model                                                     *)
(***************************************************************************)
\* capacity of a session's outbound channel (512 in ServeWs)
SendCap == 2
\* capacity of the hub's broadcast channel (256 in NewHub)
BroadcastCap == 1
\* frames put on the broadcast channel over a run
MaxFrames == 2
\* SaveUpdate calls over a run of the store specification
MaxAppends == 5
\* compaction.Config.UpdateThreshold (100 in DefaultConfig)
UpdateThreshold == 2
\* compaction.Config.KeepRecentUpdates (10 in DefaultConfig)
KeepRecentUpdates == 1
\* updates merged into one snapshot blob by a call of mergeYjsUpdates
MaxBlobFrames == 2
\* length of a frame handed to validateYjsMessage
MaxFrameLen == 3
\* frames the connections deliver to the readers over a run
MaxReads == 3
\* requests the version API answers over a run
MaxRequests == 3
\* seconds the clock of the store advances over a run
MaxClock == 1
\* auto-saved versions kept per room (20 in CreateVersionHandler)
AutoVersionsKept == 2
\* frames a flooding client sends over a run
MaxFloodFrames == 1202
\* tokens (in units of 1/TokenScale) the bucket of a flooding client regains
\* over a run
MaxRefill == 10
\* goroutines that call AddUpdate on one RoomState at the same time
MaxAdders == 3
\* characters in a content given to computeDiff
MaxContentLen == 4

(***************************************************************************)
(* Program constants                                                       *)
(***************************************************************************)
MessageSync == 0
MessageAwareness == 1
\* the token bucket of a session: tokens per second and bucket size
messagesPerSecond == 100
messageBurst == 200
\* c.conn.SetReadLimit(maxMessageSize)
maxMessageSize == 1024 * 1024
\* Limiter.tokens is a float64 and the clock is read in milliseconds here:
\* the model counts tokens in units of 1/TokenScale
TokenScale == 10
\* a reader that returns as soon as the count of refusals reaches 1000
MaxRateLimitWarningsReached == 1000 - 1
\* readPump returns when rateLimitWarnings > 1000
MaxRateLimitWarnings == 1000

Rooms == {"r1", "r2"}
Clients == {"c1", "c2"}
\* the room parameter a client may connect with
ClientRooms(c) == IF c = "c2" THEN Rooms ELSE {"r1"}
\* Message.Sender = nil
NoClient == "nil"

\* frames a connection may deliver to readPump: valid and invalid ones
SyncFrames == {<<0, 2, 5>>, <<0, 0>>}
\* the valid frames the sessions of the hub specification send
HubFrames == {<<0, 2, 5>>, <<1, 9>>}
\* the frames put on h.broadcast with no sender
InjectFrames == {<<0, 2, 5>>}
AwarenessFrames == {<<1, 9>>}
ValidFrames == SyncFrames \cup AwarenessFrames
InvalidFrames == {<<>>, <<0>>, <<0, 3>>, <<1>>, <<2, 0>>}
InFrames == HubFrames \cup InvalidFrames
\* the updates of room r1 that the store holds when the hub starts
PreUpdates == << <<0, 2, 1>>, <<0, 2, 2>> >>
PreFrames == {PreUpdates[i] : i \in DOMAIN PreUpdates}

VARIABLES
    \* ---- hub (ws.Hub) ----
    rooms,        \* h.rooms: room id -> set of member clients (a map: partial)
    roomStates,   \* h.roomStates: room id -> RoomState (a map: partial)
    broadcast,    \* h.broadcast: queue of Message
    panicked,     \* the scheduler goroutine died (close of closed channel, send on closed)
    lastErr,      \* error returned by the last database.SaveUpdate of the hub
    \* ---- client sessions (ws.Client) ----
    pc,           \* the session: new (not accepted), open (readPump runs), left (readPump returned)
    roomID,       \* client.roomID
    send,         \* client.send: [buf, closes]
    wire,         \* frames writePump has written to the connection
    \* ---- store (db.Database) ----
    dbRooms,      \* table rooms: id -> [name, created_at, updated_at]
    dbUpdates,    \* table document_updates, in id order
    dbNextId,     \* AUTOINCREMENT sequence of document_updates
    dbSnapshots,  \* table room_snapshots: room id -> [data, count] (partial)
    \* ---- compaction service ----
    cpc,          \* position of compactRoom
    \* ---- history ----
    order,        \* per room, the frames in the order the scheduler dequeued them
    caught,       \* per client, the update list handleRegister read for it
    appended,     \* per room, the updates whose SaveUpdate returned nil
    passes,       \* per room, compaction passes completed
    sincePass,    \* per room, updates inserted since the last pass read the log
    raced,        \* per room, some pass had an update inserted between its read and its delete
    sent,         \* frames put on the broadcast channel so far
    \* ---- rate limiter and reader (ratelimit.Limiter, readPump) ----
    tokens,       \* per client, Limiter.tokens in tenths of a token
    rateLimitWarnings,  \* per client, readPump's rateLimitWarnings
    reads,        \* history: per client, frames ReadMessage has returned
    lastFrame,    \* history: the frame the last ReadMessage returned and its fate
    validated,    \* history: the frames readPump put on h.broadcast
    \* ---- versions (db.Database, api.API) ----
    dbVersions,   \* table document_versions, in id order
    dbNextVersionId,  \* AUTOINCREMENT sequence of document_versions
    now,          \* CURRENT_TIMESTAMP, in seconds
    resp,         \* the response of the last API request
    \* ---- function calls ----
    call          \* a call of a function: its arguments and, once made, its result

hubVars == <<rooms, roomStates, broadcast, panicked, lastErr>>
clientVars == <<pc, roomID, send, wire>>
storeVars == <<dbRooms, dbUpdates, dbNextId, dbSnapshots>>
histVars == <<order, caught, appended, passes, sincePass, raced, sent>>
limVars == <<tokens, rateLimitWarnings, reads, lastFrame, validated>>
verVars == <<dbVersions, dbNextVersionId, now, resp>>
extVars == <<limVars, verVars, call>>
vars == <<hubVars, clientVars, storeVars, cpc, histVars, extVars>>

\* no function call in progress
NoCall == [fn |-> "none"]

(***************************************************************************)
(* Helpers                                                                 *)
(***************************************************************************)
Last(s) == s[Len(s)]

\* a Go map with one key set / one key deleted
MapPut(m, k, v) == [x \in (DOMAIN m) \cup {k} |-> IF x = k THEN v ELSE m[x]]
MapDelete(m, k) == [x \in (DOMAIN m) \ {k} |-> m[x]]

RECURSIVE SelectData(_, _)
SelectData(rows, r) ==
    IF rows = <<>> THEN <<>>
    ELSE IF Head(rows).room_id = r
         THEN <<Head(rows).update_data>> \o SelectData(Tail(rows), r)
         ELSE SelectData(Tail(rows), r)

RECURSIVE IsSubseq(_, _)
IsSubseq(s, t) ==
    IF s = <<>> THEN TRUE
    ELSE IF t = <<>> THEN FALSE
    ELSE IF Head(s) = Head(t) THEN IsSubseq(Tail(s), Tail(t))
    ELSE IsSubseq(s, Tail(t))

(***************************************************************************)
(* Store: db.Database over the tables rooms, document_updates and          *)
(* room_snapshots                                                          *)
(***************************************************************************)
\* the result of GetRoom when no row has the id (nil, nil)
NoRoom == [name |-> "nil"]

\* INSERT OR REPLACE in the place of INSERT OR IGNORE: an existing row is
\* written again
CreateRoomReplace(tbl, id, name) ==
    MapPut(tbl, id, [name |-> name, created_at |-> now, updated_at |-> now])

\* INSERT OR IGNORE INTO rooms (id, name): created_at and updated_at take
\* CURRENT_TIMESTAMP; an existing row is left as it is
CreateRoom(tbl, id, name) ==
    IF id \in DOMAIN tbl THEN tbl
    ELSE MapPut(tbl, id, [name |-> name, created_at |-> now, updated_at |-> now])

\* SELECT id, name, created_at, updated_at FROM rooms WHERE id = ?
GetRoom(id) == IF id \in DOMAIN dbRooms THEN dbRooms[id] ELSE NoRoom

\* UPDATE rooms SET updated_at = CURRENT_TIMESTAMP WHERE id = ?
UpdateRoomTimestamp(tbl, id) ==
    IF id \in DOMAIN tbl THEN [tbl EXCEPT ![id].updated_at = now] ELSE tbl

\* DELETE FROM rooms WHERE id = ?  (the connection never sets PRAGMA
\* foreign_keys, so the ON DELETE CASCADE clauses of the other tables are not
\* enforced and only this table changes)
DeleteRoom(tbl, id) == MapDelete(tbl, id)

\* INSERT INTO document_updates (room_id, update_data): the next id, at the end
InsertUpdate(rows, id, r, u) ==
    Append(rows, [id |-> id, room_id |-> r, update_data |-> u])

\* GetAllUpdates with the WHERE room_id = ? clause left out
GetAllUpdatesAnyRoom(r) == [i \in DOMAIN dbUpdates |-> dbUpdates[i].update_data]

\* SELECT update_data FROM document_updates WHERE room_id = ? ORDER BY id ASC
GetAllUpdates(r) == SelectData(dbUpdates, r)

\* SELECT COUNT(*) FROM document_updates WHERE room_id = ?
GetUpdateCount(r) ==
    Cardinality({i \in DOMAIN dbUpdates : dbUpdates[i].room_id = r})

\* SELECT snapshot_data, update_count FROM room_snapshots WHERE room_id = ?
\* (sql.ErrNoRows gives nil, 0)
GetSnapshot(r) ==
    IF r \in DOMAIN dbSnapshots THEN dbSnapshots[r]
    ELSE [data |-> <<>>, count |-> 0]

\* INSERT ... ON CONFLICT(room_id) DO UPDATE: one row per room, overwritten
SaveSnapshot(tbl, r, snapshot, updateCount) ==
    MapPut(tbl, r, [data |-> snapshot, count |-> updateCount])

\* the ids of room r that ORDER BY id DESC LIMIT keepCount selects
NewestIds(rows, r, keepCount) ==
    LET ids == {rows[i].id : i \in {j \in DOMAIN rows : rows[j].room_id = r}}
    IN  {id \in ids : Cardinality({k \in ids : k > id}) < keepCount}

\* DELETE FROM document_updates WHERE room_id = ? AND id NOT IN (newest keepCount)
DeleteUpdatesBeforeSnapshot(rows, r, keepCount) ==
    LET keep == NewestIds(rows, r, keepCount)
        Stays(row) == row.room_id # r \/ row.id \in keep
    IN  SelectSeq(rows, Stays)

\* Database.SaveUpdate: CreateRoom, the INSERT, UpdateRoomTimestamp, each its own
\* statement. failAt is the statement that returns an error (0: none); the
\* statements before it have taken effect.
SaveUpdate(r, u, failAt) ==
    /\ dbRooms' = IF failAt = 1 THEN dbRooms
                  ELSE IF failAt \in {2, 3} THEN CreateRoom(dbRooms, r, "")
                  ELSE UpdateRoomTimestamp(CreateRoom(dbRooms, r, ""), r)
    /\ dbUpdates' = IF failAt \in {1, 2} THEN dbUpdates
                    ELSE InsertUpdate(dbUpdates, dbNextId, r, u)
    /\ dbNextId' = IF failAt \in {1, 2} THEN dbNextId ELSE dbNextId + 1
    /\ appended' = IF failAt = 0
                   THEN [appended EXCEPT ![r] = Append(@, u)]
                   ELSE appended
    /\ sincePass' = IF failAt \in {1, 2} THEN sincePass
                    ELSE [sincePass EXCEPT ![r] = @ + 1]

(***************************************************************************)
(* Store: the table document_versions                                      *)
(***************************************************************************)
\* the result of a query that finds no row (nil, nil)
NoVersion == [id |-> 0]

\* the rows of room r
VersionsOf(rows, r) == {rows[i] : i \in {j \in DOMAIN rows : rows[j].room_id = r}}

\* INSERT INTO document_versions: the next id, created_at CURRENT_TIMESTAMP
CreateVersion(rows, id, r, name, content, contentHash, createdBy, isAuto) ==
    Append(rows, [id |-> id, room_id |-> r, name |-> name, content |-> content,
                  content_hash |-> contentHash, created_by |-> createdBy,
                  is_auto |-> isAuto, created_at |-> now])

\* SELECT ... FROM document_versions WHERE id = ?
GetVersion(id) ==
    IF \E i \in DOMAIN dbVersions : dbVersions[i].id = id
    THEN CHOOSE v \in {dbVersions[i] : i \in DOMAIN dbVersions} : v.id = id
    ELSE NoVersion

\* SELECT COUNT(*) FROM document_versions WHERE room_id = ?
GetVersionCount(r) == Cardinality(VersionsOf(dbVersions, r))

\* SELECT ... WHERE room_id = ? ORDER BY created_at DESC LIMIT 1: created_at
\* counts seconds, and among the rows of the latest second the order is not
\* specified, so each of them is a possible result
GetLatestVersion(r) ==
    LET vs == VersionsOf(dbVersions, r)
    IN  IF vs = {} THEN {NoVersion}
        ELSE {v \in vs : \A w \in vs : w.created_at <= v.created_at}

\* DELETE FROM document_versions WHERE id = ?
DeleteVersion(rows, id) ==
    LET Stays(row) == row.id # id
    IN  SelectSeq(rows, Stays)

\* DELETE ... WHERE room_id = ? AND is_auto = TRUE AND id NOT IN (SELECT id ...
\* WHERE room_id = ? AND is_auto = TRUE ORDER BY created_at DESC LIMIT ?):
\* the possible tables afterwards, one for each set of keepCount rows that
\* ORDER BY created_at DESC may put first
DeleteOldAutoVersions(rows, r, keepCount) ==
    LET autos == {v \in VersionsOf(rows, r) : v.is_auto}
        n == IF Cardinality(autos) < keepCount THEN Cardinality(autos) ELSE keepCount
        kept == {K \in SUBSET autos :
                    /\ Cardinality(K) = n
                    /\ \A k \in K : \A x \in autos \ K : x.created_at <= k.created_at}
    IN  {LET Stays(row) == row \notin autos \/ row \in K
         IN  SelectSeq(rows, Stays) : K \in kept}

(***************************************************************************)
(* Snapshot blob: compaction.mergeYjsUpdates / compaction.SplitMergedUpdates*)
(***************************************************************************)
\* byte(length>>24), byte(length>>16), byte(length>>8), byte(length) of
\* uint32(len(update)); a frame is at most maxMessageSize bytes, far below 2^32,
\* so the conversion to uint32 loses nothing
U32BE(length) ==
    << (length \div 16777216) % 256, (length \div 65536) % 256,
       (length \div 256) % 256, length % 256 >>

RECURSIVE mergeYjsUpdates(_)
mergeYjsUpdates(updates) ==
    IF updates = <<>> THEN <<>>
    ELSE U32BE(Len(Head(updates))) \o Head(updates)
             \o mergeYjsUpdates(Tail(updates))

\* the loop with the end test offset+int(length) >= len(merged)
RECURSIVE SplitFromStrict(_, _)
SplitFromStrict(merged, offset) ==
    IF ~(offset < Len(merged)) THEN <<>>
    ELSE IF offset + 4 > Len(merged) THEN <<>>
    ELSE LET length == merged[offset + 1] * 16777216 + merged[offset + 2] * 65536
                         + merged[offset + 3] * 256 + merged[offset + 4]
             start == offset + 4
         IN  IF start + length >= Len(merged) THEN <<>>
             ELSE <<SubSeq(merged, start + 1, start + length)>>
                      \o SplitFromStrict(merged, start + length)

\* the loop of SplitMergedUpdates from a 0-based offset
RECURSIVE SplitFrom(_, _)
SplitFrom(merged, offset) ==
    IF ~(offset < Len(merged)) THEN <<>>
    ELSE IF offset + 4 > Len(merged) THEN <<>>
    ELSE LET length == merged[offset + 1] * 16777216 + merged[offset + 2] * 65536
                         + merged[offset + 3] * 256 + merged[offset + 4]
             start == offset + 4
         IN  IF start + length > Len(merged) THEN <<>>
             ELSE <<SubSeq(merged, start + 1, start + length)>>
                      \o SplitFrom(merged, start + length)

SplitMergedUpdates(merged) == SplitFrom(merged, 0)

\* the updates a caller may hand to mergeYjsUpdates
BlobFrames == {<<>>, <<0, 0>>, <<0, 2, 5>>, <<0, 1, 7, 7>>}

\* the sequences over S of length at most n
SeqsUpTo(S, n) == UNION {[1..k -> S] : k \in 0..n}

\* a call: the updates to merge, and the number of bytes of the blob that
\* reach the reader (all of them, or a truncated blob)
BlobCalls ==
    UNION {{[fn |-> "blob", stage |-> "start", updates |-> us, cut |-> k,
             merged |-> <<>>, result |-> <<>>] :
                k \in 0..Len(mergeYjsUpdates(us))} :
           us \in SeqsUpTo(BlobFrames, MaxBlobFrames)}

\* compactRoom builds the blob; the first call.cut bytes of it are what the
\* snapshot row gives back
BlobMerge ==
    /\ call.fn = "blob" /\ call.stage = "start"
    /\ call' = [call EXCEPT !.stage = "merged",
                            !.merged = SubSeq(mergeYjsUpdates(call.updates), 1, call.cut)]
    /\ UNCHANGED <<hubVars, clientVars, storeVars, cpc, histVars, limVars, verVars>>

\* getRoomState splits the blob it read
BlobSplit ==
    /\ call.fn = "blob" /\ call.stage = "merged"
    /\ call' = [call EXCEPT !.stage = "done",
                            !.result = SplitMergedUpdates(call.merged)]
    /\ UNCHANGED <<hubVars, clientVars, storeVars, cpc, histVars, limVars, verVars>>

(***************************************************************************)
(* Compaction service: Service.compactRoom, one store call per step        *)
(***************************************************************************)
CompactIdle == [state |-> "idle"]

\* updates, err := s.database.GetAllUpdates(roomID); below the threshold: return nil
CompactRead(r) ==
    /\ cpc = CompactIdle
    /\ LET updates == GetAllUpdates(r)
       IN  cpc' = IF Len(updates) < UpdateThreshold THEN CompactIdle
                  ELSE [state |-> "read", room |-> r, updates |-> updates]
    /\ sincePass' = IF cpc' = CompactIdle THEN sincePass
                    ELSE [sincePass EXCEPT ![r] = 0]
    /\ UNCHANGED <<hubVars, clientVars, storeVars>>
    /\ UNCHANGED <<order, caught, appended, passes, raced, sent>>
    /\ UNCHANGED extVars

\* compactRoom truncating first: the delete made where the snapshot is due
CompactTruncateFirst ==
    /\ cpc.state = "read"
    /\ dbUpdates' = DeleteUpdatesBeforeSnapshot(dbUpdates, cpc.room, KeepRecentUpdates)
    /\ cpc' = [cpc EXCEPT !.state = "saved"]
    /\ UNCHANGED <<hubVars, clientVars, dbRooms, dbNextId, dbSnapshots, histVars>>
    /\ UNCHANGED extVars

\* mergedUpdate := mergeYjsUpdates(updates); SaveSnapshot(roomID, mergedUpdate, len(updates))
CompactSave ==
    /\ cpc.state = "read"
    /\ dbSnapshots' = SaveSnapshot(dbSnapshots, cpc.room,
                                   mergeYjsUpdates(cpc.updates), Len(cpc.updates))
    /\ cpc' = [cpc EXCEPT !.state = "saved"]
    /\ UNCHANGED <<hubVars, clientVars, dbRooms, dbUpdates, dbNextId, histVars>>
    /\ UNCHANGED extVars

\* DeleteUpdatesBeforeSnapshot(roomID, s.config.KeepRecentUpdates); return nil
CompactDelete ==
    /\ cpc.state = "saved"
    /\ dbUpdates' = DeleteUpdatesBeforeSnapshot(dbUpdates, cpc.room, KeepRecentUpdates)
    /\ passes' = [passes EXCEPT ![cpc.room] = @ + 1]
    /\ raced' = [raced EXCEPT ![cpc.room] = @ \/ sincePass[cpc.room] > 0]
    /\ cpc' = CompactIdle
    /\ UNCHANGED <<hubVars, clientVars, dbRooms, dbNextId, dbSnapshots>>
    /\ UNCHANGED <<order, caught, appended, sincePass, sent>>
    /\ UNCHANGED extVars

\* DeleteUpdatesBeforeSnapshot returns an error (its one DELETE statement has
\* no effect) or the service stops before it: compactRoom ends with the
\* snapshot saved and the log as it was
CompactDeleteFails ==
    /\ cpc.state = "saved"
    /\ cpc' = CompactIdle
    /\ UNCHANGED <<hubVars, clientVars, storeVars, histVars>>
    /\ UNCHANGED extVars

\* a caller of Database.SaveUpdate (the hub's write-through) appends u to room r
StoreAppend(r, u) ==
    /\ dbNextId <= MaxAppends
    /\ SaveUpdate(r, u, 0)
    /\ UNCHANGED <<hubVars, clientVars, dbSnapshots, cpc>>
    /\ UNCHANGED <<order, caught, passes, raced, sent>>
    /\ UNCHANGED extVars

(***************************************************************************)
(* Wire framing: validateYjsMessage                                        *)
(***************************************************************************)
\* only the kind byte tested: no length and no sync type test
validateYjsMessageKindOnly(data) ==
    IF Len(data) = 0 THEN FALSE
    ELSE data[1] = MessageSync \/ data[1] = MessageAwareness

\* the sync type test written syncType > 3
validateYjsMessageUpTo3(data) ==
    IF Len(data) = 0 THEN FALSE
    ELSE IF data[1] = MessageSync
         THEN IF Len(data) < 2 THEN FALSE
              ELSE IF data[2] > 3 THEN FALSE
              ELSE TRUE
    ELSE IF data[1] = MessageAwareness
         THEN IF Len(data) < 2 THEN FALSE ELSE TRUE
    ELSE FALSE

\* TRUE when validateYjsMessage returns nil
validateYjsMessage(data) ==
    IF Len(data) = 0 THEN FALSE
    ELSE IF data[1] = MessageSync
         THEN IF Len(data) < 2 THEN FALSE
              ELSE IF data[2] > 2 THEN FALSE
              ELSE TRUE
    ELSE IF data[1] = MessageAwareness
         THEN IF Len(data) < 2 THEN FALSE ELSE TRUE
    ELSE FALSE

\* byte values of the frames handed to validateYjsMessage
FrameBytes == {0, 1, 2, 3, 255}

\* a call of validateYjsMessage on a frame
ValidateCalls ==
    {[fn |-> "validate", stage |-> "start", data |-> d, ok |-> FALSE] :
        d \in SeqsUpTo(FrameBytes, MaxFrameLen)}

\* readPump calls validateYjsMessage(message); ok is err == nil
ValidateCall ==
    /\ call.fn = "validate" /\ call.stage = "start"
    /\ call' = [call EXCEPT !.stage = "done", !.ok = validateYjsMessage(call.data)]
    /\ UNCHANGED <<hubVars, clientVars, storeVars, cpc, histVars, limVars, verVars>>

(***************************************************************************)
(* Channels: client.send is a buffered channel; closes counts close(ch)    *)
(***************************************************************************)
NewChan == [buf |-> <<>>, closes |-> 0]
\* select { case ch <- item: ... default: ... } takes the send when there is room
HasRoom(ch) == Len(ch.buf) < SendCap
Enqueue(ch, item) == [ch EXCEPT !.buf = Append(@, item)]
Close(ch) == [ch EXCEPT !.closes = @ + 1]
IsClosed(ch) == ch.closes > 0

\* everything ever enqueued on c's outbound channel, oldest first
Outbound(c) == wire[c] \o send[c].buf

(***************************************************************************)
(* RoomState under concurrent callers: r.mu, AddUpdate, GetUpdates         *)
(***************************************************************************)
\* the goroutines that call AddUpdate, each with its own update, and the one
\* that calls GetUpdates
Adders == 1..MaxAdders
Getter == 0
NoHolder == 0 - 1

\* sync.RWMutex: the goroutine holding the write lock (NoHolder: none) and
\* the goroutines holding the read lock
NewRWMutex == [writer |-> NoHolder, readers |-> {}]

\* a Lock that never waits
CanLockAlways(mu) == TRUE

\* r.mu.Lock() returns: no writer and no reader holds the mutex
CanLock(mu) == mu.writer = NoHolder /\ mu.readers = {}

\* r.mu.RLock() returns: no writer holds the mutex
CanRLock(mu) == mu.writer = NoHolder

\* one RoomState and the goroutines about to call it: at is each goroutine's
\* position, slice the value of r.Updates it has read
ConcurrentCalls ==
    {[fn |-> "roomstate", Updates |-> <<>>, mu |-> NewRWMutex,
      at |-> [g \in Adders \cup {Getter} |-> "start"],
      slice |-> [g \in Adders \cup {Getter} |-> <<>>]]}

\* what the steps of the goroutines leave alone
ConcurrentFrame ==
    UNCHANGED <<hubVars, clientVars, storeVars, cpc, histVars, limVars, verVars>>

\* AddUpdate: r.mu.Lock()
AddUpdateLock(g) ==
    /\ call.fn = "roomstate" /\ call.at[g] = "start"
    /\ CanLock(call.mu)
    /\ call' = [call EXCEPT !.mu.writer = g, !.at[g] = "locked"]
    /\ ConcurrentFrame

\* AddUpdate: append reads r.Updates ...
AddUpdateRead(g) ==
    /\ call.fn = "roomstate" /\ call.at[g] = "locked"
    /\ call' = [call EXCEPT !.slice[g] = call.Updates, !.at[g] = "read"]
    /\ ConcurrentFrame

\* ... and r.Updates is assigned the slice with updateCopy at its end
AddUpdateWrite(g) ==
    /\ call.fn = "roomstate" /\ call.at[g] = "read"
    /\ call' = [call EXCEPT !.Updates = Append(call.slice[g], <<g>>),
                            !.at[g] = "written"]
    /\ ConcurrentFrame

\* AddUpdate: the deferred r.mu.Unlock()
AddUpdateUnlock(g) ==
    /\ call.fn = "roomstate" /\ call.at[g] = "written"
    /\ call' = [call EXCEPT !.mu.writer = NoHolder, !.at[g] = "done"]
    /\ ConcurrentFrame

\* GetUpdates: r.mu.RLock()
GetUpdatesRLock ==
    /\ call.fn = "roomstate" /\ call.at[Getter] \in {"start", "done"}
    /\ CanRLock(call.mu)
    /\ call' = [call EXCEPT !.mu.readers = @ \cup {Getter}, !.at[Getter] = "locked"]
    /\ ConcurrentFrame

\* GetUpdates: return r.Updates
GetUpdatesRead ==
    /\ call.fn = "roomstate" /\ call.at[Getter] = "locked"
    /\ call' = [call EXCEPT !.slice[Getter] = call.Updates, !.at[Getter] = "read"]
    /\ ConcurrentFrame

\* GetUpdates: the deferred r.mu.RUnlock()
GetUpdatesRUnlock ==
    /\ call.fn = "roomstate" /\ call.at[Getter] = "read"
    /\ call' = [call EXCEPT !.mu.readers = @ \ {Getter}, !.at[Getter] = "done"]
    /\ ConcurrentFrame

(***************************************************************************)
(* Hub: RoomState, getRoomState                                            *)
(***************************************************************************)
\* NewRoomState(): no updates, an empty awareness map
NewRoomState == [Updates |-> <<>>, AwarenessStates |-> <<>>]

\* the copy made one byte short
AddUpdateShort(state, update) ==
    [state EXCEPT !.Updates = Append(@, SubSeq(update, 1, Len(update) - 1))]

\* RoomState.AddUpdate: a copy of the update at the end of the list
AddUpdate(state, update) == [state EXCEPT !.Updates = Append(@, update)]

\* RoomState.GetAllAwareness: the values of the awareness map, which nothing in
\* the hub writes
GetAllAwareness(state) == state.AwarenessStates

\* the load without the snapshot: the rows of the log only
LoadUpdatesLogOnly(r) == GetAllUpdates(r)

\* what getRoomState loads for a room it has no state for:
\* SplitMergedUpdates(snapshot) when the snapshot is non-empty, then GetAllUpdates
LoadUpdates(r) ==
    LET snapshot == GetSnapshot(r).data
        snapshotUpdates == IF Len(snapshot) > 0 THEN SplitMergedUpdates(snapshot)
                           ELSE <<>>
    IN  snapshotUpdates \o GetAllUpdates(r)

\* h.roomStates after getRoomState(r): the cached state, or a new one loaded
\* from the store
getRoomState(r) ==
    IF r \in DOMAIN roomStates THEN roomStates
    ELSE MapPut(roomStates, r, [NewRoomState EXCEPT !.Updates = LoadUpdates(r)])

IsMember(c) == roomID[c] \in DOMAIN rooms /\ c \in rooms[roomID[c]]

(***************************************************************************)
(* Hub.handleRegister (ServeWs hands the client over on h.register)        *)
(***************************************************************************)
\* h.rooms after the client is added, the room's entry created when missing
RegisterMember(c, r) ==
    MapPut(rooms, r, (IF r \in DOMAIN rooms THEN rooms[r] ELSE {}) \cup {c})

\* the catch-up frames offered newest first
CatchUpFramesNewestFirst(state) ==
    [i \in 1..Len(state.Updates) |->
        [data |-> state.Updates[Len(state.Updates) + 1 - i], src |-> "catchup", idx |-> i]]

\* the frames handleRegister will offer to the new client: the retained
\* updates in list order, then the awareness states
CatchUpFrames(state) ==
    [i \in 1..Len(state.Updates) |->
        [data |-> state.Updates[i], src |-> "catchup", idx |-> i]]
    \o [i \in 1..Len(GetAllAwareness(state)) |->
        [data |-> GetAllAwareness(state)[i], src |-> "awareness", idx |-> i]]

\* the catch-up loops closing the channel at the first frame that finds the
\* buffer full, as the fan-out of a live broadcast does
RECURSIVE OfferAllOrClose(_, _)
OfferAllOrClose(ch, todo) ==
    IF todo = <<>> THEN ch
    ELSE IF HasRoom(ch) THEN OfferAllOrClose(Enqueue(ch, Head(todo)), Tail(todo))
    ELSE Close(ch)

\* the catch-up loops: a non-blocking send per frame, dropped when the buffer is full
RECURSIVE OfferAll(_, _)
OfferAll(ch, todo) ==
    IF todo = <<>> THEN ch
    ELSE OfferAll(IF HasRoom(ch) THEN Enqueue(ch, Head(todo)) ELSE ch, Tail(todo))

HandleRegister(c, r) ==
    /\ ~panicked
    /\ pc[c] = "new"
    /\ rooms' = RegisterMember(c, r)
    /\ roomStates' = getRoomState(r)
    /\ send' = [send EXCEPT ![c] = OfferAll(@, CatchUpFrames(roomStates'[r]))]
    /\ caught' = [caught EXCEPT ![c] = roomStates'[r].Updates]
    /\ pc' = [pc EXCEPT ![c] = "open"]
    /\ roomID' = [roomID EXCEPT ![c] = r]
    /\ UNCHANGED <<broadcast, panicked, lastErr, wire, storeVars, cpc>>
    /\ UNCHANGED <<order, appended, passes, sincePass, raced, sent>>
    /\ UNCHANGED extVars

\* what getRoomState loads when a read of the store fails: GetSnapshot
\* returning an error gives no snapshot, GetAllUpdates returning an error
\* gives no rows; each error is logged and the other read is still used
LoadUpdatesOnError(r, snapshotErr, updatesErr) ==
    LET snapshot == IF snapshotErr THEN <<>> ELSE GetSnapshot(r).data
        snapshotUpdates == IF Len(snapshot) > 0 THEN SplitMergedUpdates(snapshot)
                           ELSE <<>>
    IN  snapshotUpdates \o (IF updatesErr THEN <<>> ELSE GetAllUpdates(r))

\* handleRegister for the first session of a room with no cached state, while
\* a read of the store fails; call keeps what getRoomState logged
HandleRegisterOnError(c, r, snapshotErr, updatesErr) ==
    /\ ~panicked
    /\ pc[c] = "new"
    /\ r \notin DOMAIN roomStates
    /\ snapshotErr \/ updatesErr
    /\ rooms' = RegisterMember(c, r)
    /\ roomStates' = MapPut(roomStates, r,
            [NewRoomState EXCEPT !.Updates = LoadUpdatesOnError(r, snapshotErr, updatesErr)])
    /\ send' = [send EXCEPT ![c] = OfferAll(@, CatchUpFrames(roomStates'[r]))]
    /\ caught' = [caught EXCEPT ![c] = roomStates'[r].Updates]
    /\ pc' = [pc EXCEPT ![c] = "open"]
    /\ roomID' = [roomID EXCEPT ![c] = r]
    /\ call' = [fn |-> "getRoomState", room |-> r,
                snapshotErr |-> snapshotErr, updatesErr |-> updatesErr]
    /\ UNCHANGED <<broadcast, panicked, lastErr, wire, storeVars, cpc>>
    /\ UNCHANGED <<order, appended, passes, sincePass, raced, sent, limVars, verVars>>

(***************************************************************************)
(* Hub.handleRegister step by step, beside the client's writePump          *)
(* (ServeWs starts writePump as soon as the scheduler has taken the client *)
(* off h.register)                                                         *)
(***************************************************************************)
\* handleRegister up to the start of its catch-up loops: the client is added
\* to the room, the RoomState is looked up and its lists are read
RegisterBegin(c, r) ==
    /\ ~panicked
    /\ pc[c] = "new"
    /\ call = NoCall
    /\ rooms' = RegisterMember(c, r)
    /\ roomStates' = getRoomState(r)
    /\ caught' = [caught EXCEPT ![c] = roomStates'[r].Updates]
    /\ pc' = [pc EXCEPT ![c] = "joining"]
    /\ roomID' = [roomID EXCEPT ![c] = r]
    /\ call' = [fn |-> "register", client |-> c, todo |-> CatchUpFrames(roomStates'[r])]
    /\ UNCHANGED <<broadcast, panicked, lastErr, send, wire, storeVars, cpc>>
    /\ UNCHANGED <<order, appended, passes, sincePass, raced, sent, limVars, verVars>>

\* one iteration of a catch-up loop: select { case client.send <- update: default: }
RegisterOffer ==
    /\ call.fn = "register"
    /\ call.todo # <<>>
    /\ send' = [send EXCEPT ![call.client] =
                    IF HasRoom(@) THEN Enqueue(@, Head(call.todo)) ELSE @]
    /\ call' = [call EXCEPT !.todo = Tail(@)]
    /\ UNCHANGED <<hubVars, pc, roomID, wire, storeVars, cpc, histVars, limVars, verVars>>

\* handleRegister returns
RegisterEnd ==
    /\ call.fn = "register"
    /\ call.todo = <<>>
    /\ pc' = [pc EXCEPT ![call.client] = "open"]
    /\ call' = NoCall
    /\ UNCHANGED <<hubVars, roomID, send, wire, storeVars, cpc, histVars, limVars, verVars>>

(***************************************************************************)
(* Hub.handleUnregister                                                    *)
(***************************************************************************)
\* handleUnregister without the inner membership test: any client of a room
\* that has an entry is closed
UnregisterActsAnyClient(c) == roomID[c] \in DOMAIN rooms

\* the guard under which handleUnregister deletes the client and closes its
\* channel: the room has an entry and the client is in it
UnregisterActs(c) == IsMember(c)

\* handleUnregister without delete(h.rooms, client.roomID): an empty entry stays
UnregisterMemberEntryKept(c) == [rooms EXCEPT ![roomID[c]] = @ \ {c}]

\* handleUnregister without delete(clients, client): the channel is closed and
\* the client stays in the set
UnregisterMemberNotDeleted(c) == rooms

\* h.rooms after the client is deleted; the entry goes with its last member
UnregisterMember(c) ==
    LET r == roomID[c]
    IN  IF rooms[r] \ {c} = {} THEN MapDelete(rooms, r)
        ELSE [rooms EXCEPT ![r] = @ \ {c}]

HandleUnregister(c) ==
    /\ ~panicked
    /\ pc[c] = "left"
    /\ IF UnregisterActs(c)
       THEN /\ rooms' = (IF IsMember(c) THEN UnregisterMember(c) ELSE rooms)
            /\ send' = [send EXCEPT ![c] = Close(@)]
            /\ panicked' = IsClosed(send[c])
       ELSE UNCHANGED <<rooms, send, panicked>>
    /\ UNCHANGED <<roomStates, broadcast, lastErr, pc, roomID, wire>>
    /\ UNCHANGED <<storeVars, cpc, order, caught, appended, passes, sincePass, raced, sent>>
    /\ UNCHANGED extVars

(***************************************************************************)
(* Hub.handleBroadcast                                                     *)
(***************************************************************************)
\* every non-empty frame is stored, whatever its kind
IsStoredAnyKind(data) == Len(data) > 0

\* first byte 0x00 of a non-empty frame: the frame is stored
IsStored(data) == Len(data) > 0 /\ data[1] = MessageSync

\* the classification part skipped for a room without a member entry
StoreInMemoryIfMembers(m) ==
    IF Len(m.Data) > 0 /\ m.RoomID \in DOMAIN rooms
    THEN LET states == getRoomState(m.RoomID)
         IN  IF IsStored(m.Data)
             THEN [states EXCEPT ![m.RoomID] = AddUpdate(@, m.Data)]
             ELSE states
    ELSE roomStates

\* h.roomStates after the classification part of handleBroadcast:
\* getRoomState for every non-empty frame, AddUpdate for a sync frame
StoreInMemory(m) ==
    IF Len(m.Data) > 0
    THEN LET states == getRoomState(m.RoomID)
         IN  IF IsStored(m.Data)
             THEN [states EXCEPT ![m.RoomID] = AddUpdate(@, m.Data)]
             ELSE states
    ELSE roomStates

\* the fan-out over the members of every room
RecipientsAnyRoom(m) ==
    {c \in UNION {rooms[r] : r \in DOMAIN rooms} : c # m.Sender}

\* the fan-out without the test client != message.Sender
RecipientsWithEcho(m) ==
    IF m.RoomID \in DOMAIN rooms THEN rooms[m.RoomID] ELSE {}

\* the fan-out made only for a sender that is nil or still a member
RecipientsIfSenderMember(m) ==
    IF m.RoomID \in DOMAIN rooms /\ (m.Sender = NoClient \/ m.Sender \in rooms[m.RoomID])
    THEN {c \in rooms[m.RoomID] : c # m.Sender}
    ELSE {}

\* the members the fan-out loop offers the frame to: client != message.Sender
Recipients(m) ==
    IF m.RoomID \in DOMAIN rooms THEN {c \in rooms[m.RoomID] : c # m.Sender}
    ELSE {}

\* the recipients whose select falls to default: buffer full
Evicted(m) == {c \in Recipients(m) : ~HasRoom(send[c])}

\* the frame put ahead of the frames already buffered
FanOutChanAtHead(m, c, item) ==
    IF c \in Evicted(m) THEN Close(send[c])
    ELSE [send[c] EXCEPT !.buf = <<item>> \o @]

\* the frame enqueued twice
FanOutChanTwice(m, c, item) ==
    IF c \in Evicted(m) THEN Close(send[c]) ELSE Enqueue(Enqueue(send[c], item), item)

\* a recipient's channel after its select: the frame enqueued, or the channel closed
FanOutChan(m, c, item) ==
    IF c \in Evicted(m) THEN Close(send[c]) ELSE Enqueue(send[c], item)

\* the fan-out without delete(clients, client)
FanOutMembersKept(m) == rooms

\* h.rooms after the fan-out: delete(clients, client) for each evicted member;
\* the room's entry stays even when it becomes empty
FanOutMembers(m) ==
    IF m.RoomID \in DOMAIN rooms
    THEN [rooms EXCEPT ![m.RoomID] = @ \ Evicted(m)]
    ELSE rooms

\* handleBroadcast returning when SaveUpdate fails, before the fan-out
HandleBroadcastReturnsOnError(failAt) ==
    /\ ~panicked
    /\ broadcast # <<>>
    /\ LET m == Head(broadcast)
           r == m.RoomID
           item == [data |-> m.Data, src |-> "live", idx |-> Len(order[r]) + 1]
           returns == IsStored(m.Data) /\ failAt # 0
       IN  /\ roomStates' = StoreInMemory(m)
           /\ IF IsStored(m.Data)
              THEN /\ SaveUpdate(r, m.Data, failAt)
                   /\ lastErr' = (failAt # 0)
              ELSE UNCHANGED <<dbRooms, dbUpdates, dbNextId, appended, sincePass, lastErr>>
           /\ send' = [c \in Clients |->
                          IF ~returns /\ c \in Recipients(m) /\ ~IsClosed(send[c])
                          THEN FanOutChan(m, c, item) ELSE send[c]]
           /\ rooms' = IF returns THEN rooms ELSE FanOutMembers(m)
           /\ panicked' = (~returns /\ \E c \in Recipients(m) : IsClosed(send[c]))
           /\ order' = [order EXCEPT ![r] = Append(@, m.Data)]
    /\ broadcast' = Tail(broadcast)
    /\ UNCHANGED <<pc, roomID, wire, dbSnapshots, cpc, caught, passes, raced, sent>>
    /\ UNCHANGED extVars

\* handleBroadcast with a blocking send in its fan-out: the scheduler waits
\* until every recipient's buffer has room
HandleBroadcastBlocking(failAt) ==
    /\ ~panicked
    /\ broadcast # <<>>
    /\ LET m == Head(broadcast)
           r == m.RoomID
           item == [data |-> m.Data, src |-> "live", idx |-> Len(order[r]) + 1]
       IN  /\ \A c \in Recipients(m) : HasRoom(send[c])
           /\ roomStates' = StoreInMemory(m)
           /\ IF IsStored(m.Data)
              THEN /\ SaveUpdate(r, m.Data, failAt)
                   /\ lastErr' = (failAt # 0)
              ELSE UNCHANGED <<dbRooms, dbUpdates, dbNextId, appended, sincePass, lastErr>>
           /\ send' = [c \in Clients |->
                          IF c \in Recipients(m) /\ ~IsClosed(send[c])
                          THEN Enqueue(send[c], item) ELSE send[c]]
           /\ panicked' = (\E c \in Recipients(m) : IsClosed(send[c]))
           /\ order' = [order EXCEPT ![r] = Append(@, m.Data)]
    /\ broadcast' = Tail(broadcast)
    /\ UNCHANGED <<rooms, pc, roomID, wire, dbSnapshots, cpc, caught, passes, raced, sent>>
    /\ UNCHANGED extVars

HandleBroadcast(failAt) ==
    /\ ~panicked
    /\ broadcast # <<>>
    /\ LET m == Head(broadcast)
           r == m.RoomID
           item == [data |-> m.Data, src |-> "live", idx |-> Len(order[r]) + 1]
       IN  /\ roomStates' = StoreInMemory(m)
           /\ IF IsStored(m.Data)
              THEN /\ SaveUpdate(r, m.Data, failAt)
                   /\ lastErr' = (failAt # 0)
              ELSE UNCHANGED <<dbRooms, dbUpdates, dbNextId, appended, sincePass, lastErr>>
           /\ send' = [c \in Clients |->
                          IF c \in Recipients(m) /\ ~IsClosed(send[c])
                          THEN FanOutChan(m, c, item) ELSE send[c]]
           /\ rooms' = FanOutMembers(m)
           /\ panicked' = (\E c \in Recipients(m) : IsClosed(send[c]))
           /\ order' = [order EXCEPT ![r] = Append(@, m.Data)]
    /\ broadcast' = Tail(broadcast)
    /\ UNCHANGED <<pc, roomID, wire, dbSnapshots, cpc, caught, passes, raced, sent>>
    /\ UNCHANGED extVars

(***************************************************************************)
(* Hub.GetRoomCount, Hub.GetClientCount, Hub.GetActiveRooms                *)
(***************************************************************************)
\* len(h.rooms)
GetRoomCount == Cardinality(DOMAIN rooms)

\* the sum of len(clients) over h.rooms (a client is in one room at most)
GetClientCount == Cardinality(UNION {rooms[r] : r \in DOMAIN rooms})

\* result[roomID] = len(clients) for every entry of h.rooms
GetActiveRooms == [r \in DOMAIN rooms |-> Cardinality(rooms[r])]

(***************************************************************************)
(* Client pumps                                                            *)
(***************************************************************************)
\* one iteration of readPump's loop: a frame is read, the rate limiter answers
\* allowed or not, the frame is validated and put on h.broadcast
ReadPump(c, message, allowed) ==
    /\ pc[c] = "open"
    /\ sent < MaxFrames
    /\ Len(broadcast) < BroadcastCap
    /\ IF allowed /\ validateYjsMessage(message)
       THEN /\ broadcast' = Append(broadcast,
                               [RoomID |-> roomID[c], Data |-> message, Sender |-> c])
            /\ sent' = sent + 1
       ELSE UNCHANGED <<broadcast, sent>>
    /\ UNCHANGED <<rooms, roomStates, panicked, lastErr>>
    /\ UNCHANGED <<clientVars, storeVars, cpc>>
    /\ UNCHANGED <<order, caught, appended, passes, sincePass, raced>>
    /\ UNCHANGED extVars

\* Allow with the test l.tokens > 1
AllowAboveOne(tok, elapsedMs) ==
    LET added == tok + (elapsedMs * messagesPerSecond * TokenScale) \div 1000
        capped == IF added > messageBurst * TokenScale
                  THEN messageBurst * TokenScale ELSE added
    IN  IF capped > TokenScale
        THEN [tokens |-> capped - TokenScale, ok |-> TRUE]
        ELSE [tokens |-> capped, ok |-> FALSE]

\* Limiter.Allow after elapsedMs milliseconds: the bucket refilled by
\* elapsed * rate and capped at burst, one token taken when there is one
Allow(tok, elapsedMs) ==
    LET added == tok + (elapsedMs * messagesPerSecond * TokenScale) \div 1000
        capped == IF added > messageBurst * TokenScale
                  THEN messageBurst * TokenScale ELSE added
    IN  IF capped >= TokenScale
        THEN [tokens |-> capped - TokenScale, ok |-> TRUE]
        ELSE [tokens |-> capped, ok |-> FALSE]

\* one iteration of readPump's loop with the session's own limiter: ReadMessage
\* returns message, elapsedMs after the previous call of Allow. A refused frame
\* counts a warning and is skipped, or ends the reader past the limit; an
\* invalid frame is skipped; a valid frame is put on h.broadcast.
ReadPumpStep(c, message, elapsedMs) ==
    /\ pc[c] = "open"
    /\ LET a == Allow(tokens[c], elapsedMs)
           warnings == rateLimitWarnings[c] + 1
       IN  /\ tokens' = [tokens EXCEPT ![c] = a.tokens]
           /\ reads' = [reads EXCEPT ![c] = @ + 1]
           /\ IF ~a.ok
              THEN /\ rateLimitWarnings' = [rateLimitWarnings EXCEPT ![c] = warnings]
                   /\ pc' = IF warnings > MaxRateLimitWarnings
                            THEN [pc EXCEPT ![c] = "left"] ELSE pc
                   /\ lastFrame' = [client |-> c, data |-> message, fate |-> "refused"]
                   /\ UNCHANGED <<broadcast, validated>>
              ELSE IF ~validateYjsMessage(message)
              THEN /\ lastFrame' = [client |-> c, data |-> message, fate |-> "invalid"]
                   /\ UNCHANGED <<rateLimitWarnings, pc, broadcast, validated>>
              ELSE /\ Len(broadcast) < BroadcastCap
                   /\ broadcast' = Append(broadcast,
                           [RoomID |-> roomID[c], Data |-> message, Sender |-> c])
                   /\ validated' = validated \cup {message}
                   /\ lastFrame' = [client |-> c, data |-> message, fate |-> "queued"]
                   /\ UNCHANGED <<rateLimitWarnings, pc>>
    /\ UNCHANGED <<rooms, roomStates, panicked, lastErr, roomID, send, wire>>
    /\ UNCHANGED <<storeVars, cpc, histVars, verVars, call>>

\* one iteration of readPump's loop for a frame of size bytes that starts with
\* the bytes message (the bytes after them are opaque to the hub). The
\* connection's read limit is maxMessageSize: for a longer message ReadMessage
\* returns an error and the loop breaks; any other frame goes the way of
\* ReadPumpStep.
ReadPumpSized(c, message, size, elapsedMs) ==
    /\ pc[c] = "open"
    /\ size >= Len(message)
    /\ reads' = [reads EXCEPT ![c] = @ + 1]
    /\ IF size > maxMessageSize
       THEN /\ pc' = [pc EXCEPT ![c] = "left"]
            /\ lastFrame' = [client |-> c, data |-> message, size |-> size,
                             fate |-> "readlimit"]
            /\ UNCHANGED <<tokens, rateLimitWarnings, broadcast, validated>>
       ELSE LET a == Allow(tokens[c], elapsedMs)
                warnings == rateLimitWarnings[c] + 1
            IN  /\ tokens' = [tokens EXCEPT ![c] = a.tokens]
                /\ IF ~a.ok
                   THEN /\ rateLimitWarnings' = [rateLimitWarnings EXCEPT ![c] = warnings]
                        /\ pc' = IF warnings > MaxRateLimitWarnings
                                 THEN [pc EXCEPT ![c] = "left"] ELSE pc
                        /\ lastFrame' = [client |-> c, data |-> message, size |-> size,
                                         fate |-> "refused"]
                        /\ UNCHANGED <<broadcast, validated>>
                   ELSE IF ~validateYjsMessage(message)
                   THEN /\ lastFrame' = [client |-> c, data |-> message, size |-> size,
                                         fate |-> "invalid"]
                        /\ UNCHANGED <<rateLimitWarnings, pc, broadcast, validated>>
                   ELSE /\ Len(broadcast) < BroadcastCap
                        /\ broadcast' = Append(broadcast,
                                [RoomID |-> roomID[c], Data |-> message, Sender |-> c])
                        /\ validated' = validated \cup {message}
                        /\ lastFrame' = [client |-> c, data |-> message, size |-> size,
                                         fate |-> "queued"]
                        /\ UNCHANGED <<rateLimitWarnings, pc>>
    /\ UNCHANGED <<rooms, roomStates, panicked, lastErr, roomID, send, wire>>
    /\ UNCHANGED <<storeVars, cpc, histVars, verVars, call>>

\* readPump returns (read error, closed connection, rate-limit disconnect): its
\* deferred function offers the client on h.unregister
ReadPumpExit(c) ==
    /\ pc[c] = "open"
    /\ pc' = [pc EXCEPT ![c] = "left"]
    /\ UNCHANGED <<hubVars, roomID, send, wire, storeVars, cpc, histVars>>
    /\ UNCHANGED extVars

\* writePump takes the next frame off client.send and writes it to the connection
WritePump(c) ==
    /\ pc[c] # "new"
    /\ send[c].buf # <<>>
    /\ wire' = [wire EXCEPT ![c] = Append(@, Head(send[c].buf))]
    /\ send' = [send EXCEPT ![c].buf = Tail(@)]
    /\ UNCHANGED <<hubVars, pc, roomID, storeVars, cpc, histVars>>
    /\ UNCHANGED extVars

\* a message put on h.broadcast with Sender nil, as the hub's tests do
Inject(r, data) ==
    /\ sent < MaxFrames
    /\ Len(broadcast) < BroadcastCap
    /\ broadcast' = Append(broadcast, [RoomID |-> r, Data |-> data, Sender |-> NoClient])
    /\ sent' = sent + 1
    /\ UNCHANGED <<rooms, roomStates, panicked, lastErr>>
    /\ UNCHANGED <<clientVars, storeVars, cpc>>
    /\ UNCHANGED <<order, caught, appended, passes, sincePass, raced>>
    /\ UNCHANGED extVars

(***************************************************************************)
(* Version API: CreateVersionHandler, RestoreVersionHandler,               *)
(* DeleteVersionHandler                                                    *)
(***************************************************************************)
\* the content field of a create request; "" is a missing content
VersionContents == {"", "a", "b"}
\* the created_by field of the create requests
RequestCreator == "u1"

\* hex of the first 8 bytes of SHA-256(content): a value that stands for the
\* digest, different for different contents of the model
hashContent(content) == <<"sha256", content>>

\* the ids a restore or delete request may name: the ids given out, and one
\* never given out
VersionIds == 1..(MaxRequests + 1)

\* the fields every response of the model carries: the request it answers
Answer(op, status) == [n |-> resp.n + 1, op |-> op, status |-> status]

\* POST /api/versions with room_id, content, is_auto and no name
CreateVersionHandler(r, content, isAuto) ==
    /\ resp.n < MaxRequests
    /\ IF content = ""
       THEN /\ resp' = Answer("create", 400)
            /\ UNCHANGED <<dbVersions, dbNextVersionId>>
       ELSE LET name == <<(IF isAuto THEN "Auto-save" ELSE "Version"), now>>
                contentHash == hashContent(content)
            IN  \E latest \in GetLatestVersion(r) :
                   IF latest # NoVersion /\ latest.content_hash = contentHash /\ isAuto
                   THEN /\ resp' = Answer("create", 200)
                                       @@ [version |-> latest, room |-> r,
                                           content |-> content, isAuto |-> isAuto]
                        /\ UNCHANGED <<dbVersions, dbNextVersionId>>
                   ELSE LET inserted == CreateVersion(dbVersions, dbNextVersionId, r, name,
                                            content, contentHash, RequestCreator, isAuto)
                        IN  /\ dbVersions' \in
                                  (IF isAuto
                                   THEN DeleteOldAutoVersions(inserted, r, AutoVersionsKept)
                                   ELSE {inserted})
                            /\ dbNextVersionId' = dbNextVersionId + 1
                            /\ resp' = Answer("create", 201)
                                          @@ [version |-> Last(inserted), room |-> r,
                                              content |-> content, isAuto |-> isAuto]
    /\ UNCHANGED <<hubVars, clientVars, storeVars, cpc, histVars, limVars, now, call>>

\* POST /api/versions/{id}/restore, had it copied the target's creator and
\* is_auto flag to the new version
RestoreVersionHandlerCopyAll(id) ==
    /\ resp.n < MaxRequests
    /\ LET version == GetVersion(id)
       IN  IF version = NoVersion
           THEN /\ resp' = Answer("restore", 404) @@ [restored_from |-> id]
                /\ UNCHANGED <<dbVersions, dbNextVersionId>>
           ELSE /\ dbVersions' = CreateVersion(dbVersions, dbNextVersionId,
                                     version.room_id, <<"Restored from:", version.name>>,
                                     version.content, version.content_hash,
                                     version.created_by, version.is_auto)
                /\ dbNextVersionId' = dbNextVersionId + 1
                /\ resp' = Answer("restore", 200)
                              @@ [restored_from |-> version.id,
                                  new_version |-> dbNextVersionId,
                                  room_id |-> version.room_id,
                                  content |-> version.content]
    /\ UNCHANGED <<hubVars, clientVars, storeVars, cpc, histVars, limVars, now, call>>

\* POST /api/versions/{id}/restore
RestoreVersionHandler(id) ==
    /\ resp.n < MaxRequests
    /\ LET version == GetVersion(id)
       IN  IF version = NoVersion
           THEN /\ resp' = Answer("restore", 404) @@ [restored_from |-> id]
                /\ UNCHANGED <<dbVersions, dbNextVersionId>>
           ELSE /\ dbVersions' = CreateVersion(dbVersions, dbNextVersionId,
                                     version.room_id, <<"Restored from:", version.name>>,
                                     version.content, version.content_hash, "", FALSE)
                /\ dbNextVersionId' = dbNextVersionId + 1
                /\ resp' = Answer("restore", 200)
                              @@ [restored_from |-> version.id,
                                  new_version |-> dbNextVersionId,
                                  room_id |-> version.room_id,
                                  content |-> version.content]
    /\ UNCHANGED <<hubVars, clientVars, storeVars, cpc, histVars, limVars, now, call>>

\* DELETE /api/versions/{id}
DeleteVersionHandler(id) ==
    /\ resp.n < MaxRequests
    /\ dbVersions' = DeleteVersion(dbVersions, id)
    /\ resp' = Answer("delete", 200) @@ [deleted |-> id]
    /\ UNCHANGED <<hubVars, clientVars, storeVars, cpc, histVars, limVars>>
    /\ UNCHANGED <<dbNextVersionId, now, call>>

\* a second passes on the clock behind CURRENT_TIMESTAMP
Tick ==
    /\ now < MaxClock
    /\ now' = now + 1
    /\ UNCHANGED <<hubVars, clientVars, storeVars, cpc, histVars, limVars>>
    /\ UNCHANGED <<dbVersions, dbNextVersionId, resp, call>>

(***************************************************************************)
(* Room API: CreateRoomHandler, DeleteRoomHandler                          *)
(***************************************************************************)
\* the id field of a create request; "" is a missing or empty id
RequestIds == Rooms \cup {""}
\* the name field of a create request; "" is a missing name
RoomNames == {"", "Notes"}

\* POST /api/rooms with body {id, name}
CreateRoomHandler(id, name) ==
    /\ resp.n < MaxRequests
    /\ IF id = ""
       THEN /\ resp' = Answer("create_room", 400) @@ [id |-> id, name |-> name]
            /\ UNCHANGED dbRooms
       ELSE /\ dbRooms' = CreateRoom(dbRooms, id, name)
            /\ resp' = Answer("create_room", 201)
                          @@ [id |-> id, name |-> name, room |-> dbRooms'[id]]
    /\ UNCHANGED <<hubVars, clientVars, dbUpdates, dbNextId, dbSnapshots, cpc, histVars>>
    /\ UNCHANGED <<limVars, dbVersions, dbNextVersionId, now, call>>

\* DELETE /api/rooms/{id}
DeleteRoomHandler(id) ==
    /\ resp.n < MaxRequests
    /\ IF id = ""
       THEN /\ resp' = Answer("delete_room", 400) @@ [id |-> id]
            /\ UNCHANGED dbRooms
       ELSE /\ dbRooms' = DeleteRoom(dbRooms, id)
            /\ resp' = Answer("delete_room", 200) @@ [id |-> id]
    /\ UNCHANGED <<hubVars, clientVars, dbUpdates, dbNextId, dbSnapshots, cpc, histVars>>
    /\ UNCHANGED <<limVars, dbVersions, dbNextVersionId, now, call>>

(***************************************************************************)
(* Diff: computeDiff, lcsMatrix, backtrackDiff                             *)
(***************************************************************************)
\* a content is a sequence of characters; "\n" separates its lines
NL == "\n"
ContentChars == {"x", "y", NL}

\* strings.Split(s, "\n"): the pieces between the separators, one more than
\* the separators ("" gives one empty line); line is the piece being read
RECURSIVE SplitLines(_, _)
SplitLines(s, line) ==
    IF s = <<>> THEN <<line>>
    ELSE IF Head(s) = NL THEN <<line>> \o SplitLines(Tail(s), <<>>)
    ELSE SplitLines(Tail(s), Append(line, Head(s)))

StringsSplit(s) == SplitLines(s, <<>>)

\* dp[i][j]: the length of a longest common subsequence of a[1..i] and b[1..j]
lcsMatrix(a, b) ==
    LET dp[i \in 0..Len(a), j \in 0..Len(b)] ==
            IF i = 0 \/ j = 0 THEN 0
            ELSE IF a[i] = b[j] THEN dp[i - 1, j - 1] + 1
            ELSE IF dp[i - 1, j] >= dp[i, j - 1] THEN dp[i - 1, j] ELSE dp[i, j - 1]
    IN  dp

\* a DiffLine; a line number 0 is left out of the JSON (omitempty)
DiffLine(type, content, oldLine, newLine) ==
    [type |-> type, content |-> content, old_line |-> oldLine, new_line |-> newLine]

\* the loop of backtrackDiff, from the ends of both sides to their starts
RECURSIVE BacktrackLoop(_, _, _, _, _, _, _, _)
BacktrackLoop(oldLines, newLines, lcs, i, j, oldLineNum, newLineNum, stack) ==
    IF ~(i > 0 \/ j > 0) THEN stack
    ELSE IF i > 0 /\ j > 0 /\ oldLines[i] = newLines[j]
    THEN BacktrackLoop(oldLines, newLines, lcs, i - 1, j - 1,
             oldLineNum - 1, newLineNum - 1,
             Append(stack, DiffLine("unchanged", oldLines[i], oldLineNum, newLineNum)))
    ELSE IF j > 0 /\ (i = 0 \/ lcs[i, j - 1] >= lcs[i - 1, j])
    THEN BacktrackLoop(oldLines, newLines, lcs, i, j - 1,
             oldLineNum, newLineNum - 1,
             Append(stack, DiffLine("added", newLines[j], 0, newLineNum)))
    ELSE \* else if i > 0: it holds here, the branch above takes every i = 0
         BacktrackLoop(oldLines, newLines, lcs, i - 1, j,
             oldLineNum - 1, newLineNum,
             Append(stack, DiffLine("removed", oldLines[i], oldLineNum, 0)))

\* for k := len(stack) - 1; k >= 0; k-- { result = append(result, stack[k]) }
ReverseStack(stack) == [k \in 1..Len(stack) |-> stack[Len(stack) + 1 - k]]

\* backtrackDiff returning the stack as the loop left it
backtrackDiffUnreversed(oldLines, newLines, lcs) ==
    BacktrackLoop(oldLines, newLines, lcs, Len(oldLines), Len(newLines),
                  Len(oldLines), Len(newLines), <<>>)

backtrackDiff(oldLines, newLines, lcs) ==
    ReverseStack(BacktrackLoop(oldLines, newLines, lcs, Len(oldLines), Len(newLines),
                               Len(oldLines), Len(newLines), <<>>))

computeDiff(oldContent, newContent) ==
    LET oldLines == StringsSplit(oldContent)
        newLines == StringsSplit(newContent)
    IN  backtrackDiff(oldLines, newLines, lcsMatrix(oldLines, newLines))

\* the calls of computeDiff on the contents of two versions
DiffCalls ==
    {[fn |-> "diff", stage |-> "start", a |-> a, b |-> b, result |-> <<>>] :
        a \in SeqsUpTo(ContentChars, MaxContentLen),
        b \in SeqsUpTo(ContentChars, MaxContentLen)}

\* DiffVersionsHandler: diff := computeDiff(fromVersion.Content, toVersion.Content)
DiffCall ==
    /\ call.fn = "diff" /\ call.stage = "start"
    /\ call' = [call EXCEPT !.stage = "done", !.result = computeDiff(call.a, call.b)]
    /\ UNCHANGED <<hubVars, clientVars, storeVars, cpc, histVars, limVars, verVars>>

(***************************************************************************)
(* Specifications                                                          *)
(***************************************************************************)
InitHub ==
    /\ rooms = <<>>
    /\ roomStates = <<>>
    /\ broadcast = <<>>
    /\ panicked = FALSE
    /\ lastErr = FALSE
    /\ pc = [c \in Clients |-> "new"]
    /\ roomID = [c \in Clients |-> ""]
    /\ send = [c \in Clients |-> NewChan]
    /\ wire = [c \in Clients |-> <<>>]
    /\ cpc = CompactIdle
    /\ order = [r \in Rooms |-> <<>>]
    /\ caught = [c \in Clients |-> <<>>]
    /\ passes = [r \in Rooms |-> 0]
    /\ sincePass = [r \in Rooms |-> 0]
    /\ raced = [r \in Rooms |-> FALSE]
    /\ sent = 0
    /\ dbSnapshots = <<>>

\* NewLimiter(messagesPerSecond, messageBurst) for every session: a full bucket
InitLimiter ==
    /\ tokens = [c \in Clients |-> messageBurst * TokenScale]
    /\ rateLimitWarnings = [c \in Clients |-> 0]
    /\ reads = [c \in Clients |-> 0]
    /\ lastFrame = [client |-> NoClient]
    /\ validated = {}

\* an empty document_versions table, no request answered yet
InitVersions ==
    /\ dbVersions = <<>>
    /\ dbNextVersionId = 1
    /\ now = 0
    /\ resp = [n |-> 0, op |-> "none", status |-> 0]

\* the limiter, the versions and the function calls in their initial state
InitIdle == InitLimiter /\ InitVersions /\ call = NoCall

\* an empty store
InitStore ==
    /\ InitHub
    /\ dbUpdates = <<>>
    /\ dbNextId = 1
    /\ dbRooms = <<>>
    /\ appended = [r \in Rooms |-> <<>>]

\* a new hub over the store an earlier run of the server left: the updates
\* PreUpdates persisted for room r1, nothing for room r2
PreRows ==
    [i \in 1..Len(PreUpdates) |->
        [id |-> i, room_id |-> "r1", update_data |-> PreUpdates[i]]]

Init ==
    /\ InitHub
    /\ dbUpdates = PreRows
    /\ dbNextId = Len(PreUpdates) + 1
    /\ dbRooms = MapPut(<<>>, "r1", [name |-> "", created_at |-> 0, updated_at |-> 0])
    /\ appended = [r \in Rooms |-> IF r = "r1" THEN PreUpdates ELSE <<>>]
    /\ InitIdle

\* a new server over an empty store
InitServer == InitStore /\ InitIdle

Next ==
    \/ \E c \in Clients : \E r \in ClientRooms(c) : HandleRegister(c, r)
    \/ \E c \in Clients : HandleUnregister(c)
    \/ HandleBroadcast(0)
    \/ \E c \in Clients, message \in InFrames, allowed \in BOOLEAN :
          ReadPump(c, message, allowed)
    \/ \E c \in Clients : ReadPumpExit(c)
    \/ \E c \in Clients : WritePump(c)
    \/ \E r \in Rooms, data \in InjectFrames : Inject(r, data)

Spec == Init /\ [][Next]_vars

NextStore ==
    \/ \E r \in Rooms, u \in SyncFrames : StoreAppend(r, u)
    \/ \E r \in Rooms : CompactRead(r)
    \/ CompactSave
    \/ CompactDelete

SpecStore == InitServer /\ [][NextStore]_vars

\* the store under appends and compaction passes whose truncation may fail
NextCompactFaults ==
    \/ \E u \in InjectFrames \cup PreFrames : StoreAppend("r1", u)
    \/ CompactRead("r1")
    \/ CompactSave
    \/ CompactDelete
    \/ CompactDeleteFails

SpecCompactFaults == InitServer /\ [][NextCompactFaults]_vars

\* the store under appends and compaction passes, and a hub started over it
\* that registers sessions
NextReplay ==
    \/ \E r \in Rooms, u \in SyncFrames : StoreAppend(r, u)
    \/ \E r \in Rooms : CompactRead(r)
    \/ CompactSave
    \/ CompactDelete
    \/ \E r \in Rooms : HandleRegister("c2", r)

SpecReplay == InitServer /\ [][NextReplay]_vars

\* a hub started over the store an earlier run and the compaction service
\* wrote for room r1, then serving the room
NextLoad ==
    \/ /\ roomStates = <<>>
       /\ dbNextId <= UpdateThreshold + 1
       /\ StoreAppend("r1", <<MessageSync, 2, dbNextId>>)
    \/ CompactRead("r1")
    \/ CompactSave
    \/ CompactDelete
    \/ HandleRegister("c1", "r1")
    \/ \E data \in HubFrames : Inject("r1", data)
    \/ HandleBroadcast(0)

SpecLoad == InitServer /\ [][NextLoad]_vars

\* the same hub while the store's reads may fail
NextLoadFaults ==
    \/ /\ roomStates = <<>>
       /\ dbNextId <= UpdateThreshold + 1
       /\ StoreAppend("r1", <<MessageSync, 2, dbNextId>>)
    \/ CompactRead("r1")
    \/ CompactSave
    \/ CompactDelete
    \/ HandleRegister("c1", "r1")
    \/ \E snapshotErr \in BOOLEAN, updatesErr \in BOOLEAN :
          HandleRegisterOnError("c1", "r1", snapshotErr, updatesErr)
    \/ \E data \in HubFrames : Inject("r1", data)
    \/ HandleBroadcast(0)

SpecLoadFaults == InitServer /\ [][NextLoadFaults]_vars

\* the hub over an empty store with the readers of its sessions, each with its
\* rate limiter, and the compaction service
NextReader ==
    \/ \E c \in Clients : \E r \in ClientRooms(c) : HandleRegister(c, r)
    \/ \E c \in Clients : HandleUnregister(c)
    \/ HandleBroadcast(0)
    \/ \E c \in Clients, message \in InFrames :
          reads["c1"] + reads["c2"] < MaxReads /\ ReadPumpStep(c, message, 0)
    \/ \E c \in Clients : ReadPumpExit(c)
    \/ \E c \in Clients : WritePump(c)
    \/ \E r \in Rooms : CompactRead(r)
    \/ CompactSave
    \/ CompactDelete

SpecReader == InitServer /\ [][NextReader]_vars

\* the frame a flooding client sends
FloodFrame == <<1, 9>>

\* the tokens the bucket of c has regained since the session started
Refilled(c) ==
    tokens[c] + TokenScale * (reads[c] - rateLimitWarnings[c])
        - messageBurst * TokenScale

\* session c1 alone in room r1 sends frames back to back, less than
\* 1000 / messagesPerSecond milliseconds apart
NextFlood ==
    \/ HandleRegister("c1", "r1")
    \/ \E elapsedMs \in {0, 5} :
          /\ reads["c1"] < MaxFloodFrames
          /\ Refilled("c1") + elapsedMs <= MaxRefill
          /\ ReadPumpStep("c1", FloodFrame, elapsedMs)
    \/ HandleBroadcast(0)
    \/ HandleUnregister("c1")

SpecFlood == InitServer /\ [][NextFlood]_vars

\* the sizes of the frames the sessions send: short, at the read limit, past it
FrameSizes == {3, maxMessageSize, maxMessageSize + 1}

\* the sessions of room r1 send frames of these sizes, valid and invalid
NextSized ==
    \/ \E c \in Clients : HandleRegister(c, "r1")
    \/ \E c \in Clients : HandleUnregister(c)
    \/ HandleBroadcast(0)
    \/ \E c \in Clients, message \in HubFrames \cup {<<2, 0>>}, size \in FrameSizes :
          reads["c1"] + reads["c2"] < MaxReads /\ ReadPumpSized(c, message, size, 0)
    \/ \E c \in Clients : WritePump(c)

SpecSized == InitServer /\ [][NextSized]_vars

\* the version API over an empty document_versions table, beside the store an
\* earlier run of the server left and the compaction service working on it
NextVersions ==
    \/ \E r \in Rooms, content \in VersionContents, isAuto \in BOOLEAN :
          CreateVersionHandler(r, content, isAuto)
    \/ \E id \in VersionIds : RestoreVersionHandler(id)
    \/ \E id \in VersionIds : DeleteVersionHandler(id)
    \/ Tick
    \/ \E r \in Rooms : CompactRead(r)
    \/ CompactSave
    \/ CompactDelete

SpecVersions == Init /\ [][NextVersions]_vars

\* everything but the function call in its initial state
InitQuiet == InitStore /\ InitLimiter /\ InitVersions

\* the room API beside the writers of the store: the hub's write-through, the
\* compaction service and the version API
NextRooms ==
    \/ \E id \in RequestIds, name \in RoomNames : CreateRoomHandler(id, name)
    \/ \E id \in RequestIds : DeleteRoomHandler(id)
    \/ \E u \in InjectFrames : dbNextId <= UpdateThreshold /\ StoreAppend("r1", u)
    \/ CompactRead("r1")
    \/ CompactSave
    \/ CompactDelete
    \/ CreateVersionHandler("r1", "a", FALSE)
    \/ Tick

SpecRooms == InitServer /\ [][NextRooms]_vars

\* mergeYjsUpdates and SplitMergedUpdates on every bounded input
NextBlob == BlobMerge \/ BlobSplit

InitBlob == InitQuiet /\ call \in BlobCalls

SpecBlob == InitBlob /\ [][NextBlob]_vars

\* validateYjsMessage on every bounded frame
NextValidate == ValidateCall

InitValidate == InitQuiet /\ call \in ValidateCalls

SpecValidate == InitValidate /\ [][NextValidate]_vars

\* the statement of Database.SaveUpdate that returns an error: none, CreateRoom,
\* the INSERT, UpdateRoomTimestamp
SaveUpdateFaults == 0..3

\* the hub's write-through over a store whose statements may fail
NextFaults ==
    \/ \E r \in Rooms, data \in ValidFrames : Inject(r, data)
    \/ \E failAt \in SaveUpdateFaults : HandleBroadcast(failAt)
    \/ Tick

SpecFaults == InitServer /\ [][NextFaults]_vars

\* the sessions of room r1 and the scheduler over a store whose statements may
\* fail
NextFaultyHub ==
    \/ \E c \in Clients : HandleRegister(c, "r1")
    \/ \E c \in Clients, message \in HubFrames : ReadPump(c, message, TRUE)
    \/ \E failAt \in SaveUpdateFaults : HandleBroadcast(failAt)
    \/ \E c \in Clients : WritePump(c)

SpecFaultyHub == InitServer /\ [][NextFaultyHub]_vars

\* the sessions of room r1 and the scheduler over the store an earlier run
\* left; a writePump may never take a frame off its channel
NextLive ==
    \/ \E c \in Clients : HandleRegister(c, "r1")
    \/ \E c \in Clients : HandleUnregister(c)
    \/ HandleBroadcast(0)
    \/ \E c \in Clients, message \in InjectFrames : ReadPump(c, message, TRUE)
    \/ \E c \in Clients : ReadPumpExit(c)
    \/ \E c \in Clients : WritePump(c)

\* Hub.Run keeps running: a request waiting on h.unregister and a message
\* waiting on h.broadcast are taken by its select sooner or later
FairScheduler ==
    /\ WF_vars(HandleBroadcast(0))
    /\ \A c \in Clients : WF_vars(HandleUnregister(c))

SpecLive == Init /\ [][NextLive]_vars /\ FairScheduler

\* a session registers in a room whose log was written before, and its
\* writePump runs beside the scheduler's catch-up loop
NextCatchUp ==
    \/ \E u \in SyncFrames : pc["c1"] = "new" /\ StoreAppend("r1", u)
    \/ RegisterBegin("c1", "r1")
    \/ RegisterOffer
    \/ RegisterEnd
    \/ WritePump("c1")

SpecCatchUp == InitServer /\ [][NextCatchUp]_vars

\* goroutines calling AddUpdate and GetUpdates on one RoomState
NextConcurrent ==
    \/ \E g \in Adders : AddUpdateLock(g)
    \/ \E g \in Adders : AddUpdateRead(g)
    \/ \E g \in Adders : AddUpdateWrite(g)
    \/ \E g \in Adders : AddUpdateUnlock(g)
    \/ GetUpdatesRLock
    \/ GetUpdatesRead
    \/ GetUpdatesRUnlock

InitConcurrent == InitQuiet /\ call \in ConcurrentCalls

SpecConcurrent == InitConcurrent /\ [][NextConcurrent]_vars

\* computeDiff on every bounded pair of contents
NextDiff == DiffCall

InitDiff == InitQuiet /\ call \in DiffCalls

SpecDiff == InitDiff /\ [][NextDiff]_vars

(***************************************************************************)
(* Properties                                                              *)
(***************************************************************************)
\* the scheduler takes the message at the head of h.broadcast
BroadcastStep == broadcast # <<>> /\ broadcast' = Tail(broadcast)

\* the members of room r, none when the room has no entry
MembersOf(r) == IF r \in DOMAIN rooms THEN rooms[r] ELSE {}

\* the room's update list as handleBroadcast finds it: cached, or loaded
UpdatesBefore(r) ==
    IF r \in DOMAIN roomStates THEN roomStates[r].Updates ELSE LoadUpdates(r)

\* the number of rows of room r in a document_updates table
RowCount(rows, r) == Cardinality({i \in DOMAIN rows : rows[i].room_id = r})

\* some frame of c's outbound traffic came by live broadcast with index k
HoldsLive(c, k) ==
    \E i \in DOMAIN Outbound(c) :
        Outbound(c)[i].src = "live" /\ Outbound(c)[i].idx = k

\* C1: when the scheduler processes a broadcast, every member of the room
\* other than the sender whose buffer has space gets exactly the frame's bytes
\* appended to its outbound channel, and the sender's channel is untouched;
\* with a nil sender every member is a recipient.
C1_FanOutNoEcho ==
    [][BroadcastStep =>
        LET m == Head(broadcast)
        IN  \A c \in Clients :
               /\ (c \in MembersOf(m.RoomID) /\ c # m.Sender
                      /\ Len(send[c].buf) < SendCap)
                  => /\ Len(send'[c].buf) = Len(send[c].buf) + 1
                     /\ SubSeq(send'[c].buf, 1, Len(send[c].buf)) = send[c].buf
                     /\ Last(send'[c].buf).data = m.Data
               /\ (c = m.Sender => send'[c] = send[c])]_vars

\* C1 witness: a frame sent without a sender has reached both members of room
\* r1 byte for byte
C1_Witness ==
    /\ order["r1"] # <<>>
    /\ \A c \in Clients :
          /\ roomID[c] = "r1"
          /\ \E i \in DOMAIN Outbound(c) :
                /\ Outbound(c)[i].src = "live" /\ Outbound(c)[i].idx = 1
                /\ Outbound(c)[i].data = order["r1"][1]

\* C2: the frames a session receives by live broadcast are a subsequence of the
\* order in which the scheduler dequeued its room's broadcasts: each is the
\* frame the scheduler dequeued at its index, and the indices increase along
\* the session's outbound traffic.
C2_BroadcastOrder ==
    \A c \in Clients :
        pc[c] # "new" =>
            LET out == Outbound(c)
                log == order[roomID[c]]
            IN  \A i \in DOMAIN out :
                    out[i].src = "live" =>
                        /\ out[i].idx \in 1..Len(log)
                        /\ log[out[i].idx] = out[i].data
                        /\ \A j \in DOMAIN out :
                              (j > i /\ out[j].src = "live") => out[j].idx > out[i].idx

\* C2 witness: both sessions of room r1 have received the first and the second
\* broadcast of the room
C2_Witness ==
    \A c \in Clients :
        roomID[c] = "r1" /\ HoldsLive(c, 1) /\ HoldsLive(c, 2)

\* C3: when the update list read at registration fits in the outbound buffer,
\* the session's outbound traffic starts with exactly that list, in list order,
\* and every live frame comes after it.
C3_CatchUpFirst ==
    \A c \in Clients :
        (pc[c] # "new" /\ Len(caught[c]) <= SendCap) =>
            LET out == Outbound(c)
                n == Len(caught[c])
            IN  /\ Len(out) >= n
                /\ SubSeq(roomStates[roomID[c]].Updates, 1, n) = caught[c]
                /\ \A i \in 1..n : out[i].data = caught[c][i] /\ out[i].src = "catchup"
                /\ \A i \in (n + 1)..Len(out) : out[i].src = "live"

\* C3 witness: a session was replayed two retained updates and then received a
\* live frame
C3_Witness ==
    \E c \in Clients :
        /\ Len(caught[c]) = 2
        /\ caught[c][1] # caught[c][2]
        /\ Len(Outbound(c)) >= 3
        /\ Outbound(c)[3].src = "live"

\* C4: a processed frame whose first byte is 0x00 is appended once, byte for
\* byte, to the end of the room's in-memory update list and, when SaveUpdate
\* returns nil, as exactly one new row of the room's persisted log, whether or
\* not the room has a member.
C4_SyncStoredOnce ==
    [][BroadcastStep =>
        LET m == Head(broadcast)
            r == m.RoomID
        IN  (Len(m.Data) > 0 /\ m.Data[1] = 0) =>
               /\ r \in DOMAIN roomStates'
               /\ roomStates'[r].Updates = Append(UpdatesBefore(r), m.Data)
               /\ ~lastErr' =>
                     /\ dbUpdates' = Append(dbUpdates,
                           [id |-> dbNextId, room_id |-> r, update_data |-> m.Data])
                     /\ RowCount(dbUpdates', r) = RowCount(dbUpdates, r) + 1]_vars

\* C4 witness: a sync frame was processed for room r2 while no session had
\* ever joined it, and it is in the room's update list and persisted log
C4_Witness ==
    /\ \A c \in Clients : roomID[c] # "r2"
    /\ "r2" \notin DOMAIN rooms
    /\ Len(order["r2"]) = 1
    /\ order["r2"][1][1] = 0
    /\ "r2" \in DOMAIN roomStates
    /\ roomStates["r2"].Updates = order["r2"]
    /\ GetAllUpdates("r2") = order["r2"]

\* C5: processing an awareness frame leaves the room's in-memory update list
\* and the persisted log unchanged; the frame is forwarded to the other members.
C5_AwarenessNotStored ==
    [][BroadcastStep =>
        LET m == Head(broadcast)
            r == m.RoomID
        IN  (Len(m.Data) > 0 /\ m.Data[1] = 1) =>
               /\ roomStates'[r].Updates = UpdatesBefore(r)
               /\ dbUpdates' = dbUpdates
               /\ RowCount(dbUpdates', r) = RowCount(dbUpdates, r)
               /\ \A c \in MembersOf(r) \ {m.Sender} :
                     Len(send[c].buf) < SendCap =>
                        Last(send'[c].buf).data = m.Data]_vars

\* C5 witness: a member received an awareness frame by live broadcast while
\* only awareness frames were processed for its room, whose log is unchanged
C5_Witness ==
    \E c \in Clients :
        /\ pc[c] # "new"
        /\ order[roomID[c]] # <<>>
        /\ \A k \in DOMAIN order[roomID[c]] : order[roomID[c]][k][1] = 1
        /\ \E i \in DOMAIN Outbound(c) :
              Outbound(c)[i].src = "live" /\ Outbound(c)[i].data[1] = 1
        /\ GetUpdateCount(roomID[c]) = (IF roomID[c] = "r1" THEN Len(PreUpdates) ELSE 0)

\* C6: in a broadcast step every non-sender member whose buffer is full has
\* its channel closed and is removed from the member set, and every other
\* non-sender member has the frame enqueued and stays a member.
C6_SlowConsumerEvicted ==
    [][BroadcastStep =>
        LET m == Head(broadcast)
            r == m.RoomID
        IN  \A c \in MembersOf(r) \ {m.Sender} :
               IF Len(send[c].buf) >= SendCap
               THEN /\ send'[c].closes = send[c].closes + 1
                    /\ send'[c].buf = send[c].buf
                    /\ c \notin rooms'[r]
               ELSE /\ Last(send'[c].buf).data = m.Data
                    /\ send'[c].closes = send[c].closes
                    /\ c \in rooms'[r]]_vars

\* C6 witness: one session was evicted (closed and removed while its reader
\* still runs) by a broadcast that the other member of the room received
C6_Witness ==
    \E c \in Clients, d \in Clients :
        /\ c # d /\ roomID[c] = roomID[d] /\ pc[d] # "new"
        /\ pc[c] = "open" /\ send[c].closes = 1 /\ c \notin MembersOf(roomID[c])
        /\ Len(order[roomID[c]]) = 1
        /\ HoldsLive(d, 1) /\ ~HoldsLive(c, 1)

\* C7: a session's outbound channel is closed exactly once: it is closed
\* exactly when the session has left the member set, and never a second time.
C7_ClosedExactlyOnce ==
    /\ ~panicked
    /\ \A c \in Clients :
          /\ send[c].closes <= 1
          /\ send[c].closes = 1 <=> (pc[c] # "new" /\ c \notin MembersOf(roomID[c]))

\* C7 witness: session c1 was evicted (the entry of its room is left empty) and
\* its reader has returned, so its unregister request meets a closed channel
C7_Witness ==
    /\ pc["c1"] = "left" /\ pc["c2"] = "new"
    /\ send["c1"].closes = 1
    /\ "r1" \in DOMAIN rooms /\ rooms["r1"] = {}

\* C8: while nothing was deleted from a room's log, GetAllUpdates returns
\* exactly the updates appended to the room, in append order and with the
\* bytes unchanged, whatever was appended to other rooms in between, and
\* GetUpdateCount is their number.
C8_ListReturnsAppends ==
    \A r \in Rooms :
        passes[r] = 0 =>
            /\ GetAllUpdates(r) = appended[r]
            /\ GetUpdateCount(r) = Len(appended[r])

\* C8 witness: two different updates appended to r1 with an append to r2 in
\* between
C8_Witness ==
    /\ Len(dbUpdates) >= 3
    /\ dbUpdates[1].room_id = "r1" /\ dbUpdates[2].room_id = "r2"
    /\ dbUpdates[3].room_id = "r1"
    /\ dbUpdates[1].update_data # dbUpdates[3].update_data
    /\ passes["r1"] = 0 /\ passes["r2"] = 0

\* C9: after one compaction pass over a room with n >= UpdateThreshold
\* appended updates (none appended since the pass read the log),
\* GetUpdateCount is KeepRecentUpdates, the snapshot is present and splitting
\* it yields exactly the first n - KeepRecentUpdates appended updates.
C9_SnapshotHoldsPrefix ==
    \A r \in Rooms :
        (passes[r] = 1 /\ sincePass[r] = 0 /\ cpc = CompactIdle) =>
            /\ GetUpdateCount(r) = KeepRecentUpdates
            /\ r \in DOMAIN dbSnapshots
            /\ SplitMergedUpdates(GetSnapshot(r).data)
                  = SubSeq(appended[r], 1, Len(appended[r]) - KeepRecentUpdates)

\* C10: after any appends and any number of completed compaction passes (no
\* update inserted while a pass was between its read and its delete), every
\* update appended to the room still occurs, in append order, in the split
\* snapshot followed by the log.
C10_NoHistoryLost ==
    \A r \in Rooms :
        (cpc = CompactIdle /\ ~raced[r]) =>
            IsSubseq(appended[r],
                     SplitMergedUpdates(GetSnapshot(r).data) \o GetAllUpdates(r))

\* C11: when a session registers for a room the hub has no cached state for,
\* after a completed compaction pass of the room (no update inserted while a
\* pass was between its read and its delete), the update list replayed to it is
\* exactly the sequence of updates appended to the room: each once, in append
\* order.
C11_ReplayExactlyAppended ==
    [][\A c \in Clients :
          (/\ pc[c] = "new" /\ pc'[c] = "open"
           /\ roomID'[c] \notin DOMAIN roomStates
           /\ passes[roomID'[c]] >= 1
           /\ cpc = CompactIdle
           /\ ~raced[roomID'[c]])
          => caught'[c] = appended[roomID'[c]]]_vars

\* the 0-based offset at which record j of the blob of us ends
RECURSIVE RecordEnd(_, _)
RecordEnd(us, j) == IF j = 0 THEN 0 ELSE RecordEnd(us, j - 1) + 4 + Len(us[j])

\* the records of the blob of us that lie wholly within its first cut bytes
CompleteRecords(us, cut) ==
    Cardinality({j \in 1..Len(us) : RecordEnd(us, j) <= cut})

\* C12: splitting the blob of a sequence of frames gives the sequence back;
\* splitting a blob cut inside a record (inside its four length bytes, or inside
\* its payload) gives exactly the frames of the complete records before the cut.
C12_BlobRoundTrip ==
    (call.fn = "blob" /\ call.stage = "done") =>
        /\ call.result = SubSeq(call.updates, 1,
                                CompleteRecords(call.updates, call.cut))
        /\ call.cut = RecordEnd(call.updates, Len(call.updates))
              => call.result = call.updates

\* C12 witness: a blob of two records cut inside the payload of the second was
\* split into the first frame alone
C12_Witness ==
    /\ call.fn = "blob" /\ call.stage = "done"
    /\ Len(call.updates) = 2
    /\ call.cut >= RecordEnd(call.updates, 1) + 4
    /\ call.cut < RecordEnd(call.updates, 2)
    /\ call.result = <<call.updates[1]>>

\* C13: validateYjsMessage accepts a frame exactly when it is non-empty and
\* either starts with 0x00, has at least 2 bytes and a second byte in {0, 1, 2},
\* or starts with 0x01 and has at least 2 bytes.
C13_ValidationAcceptsExactly ==
    (call.fn = "validate" /\ call.stage = "done") =>
        (call.ok <=>
            /\ Len(call.data) > 0
            /\ \/ (call.data[1] = 0 /\ Len(call.data) >= 2 /\ call.data[2] \in {0, 1, 2})
               \/ (call.data[1] = 1 /\ Len(call.data) >= 2))

\* C13 witness: a sync frame of sub-kind 3 was validated and rejected
C13_Witness ==
    /\ call.fn = "validate" /\ call.stage = "done"
    /\ Len(call.data) >= 2 /\ call.data[1] = 0 /\ call.data[2] = 3
    /\ ~call.ok

\* the frames the wire format admits: non-empty, and either kind 0x00 with a
\* sub-kind byte in {0, 1, 2} or kind 0x01 with at least one more byte
IsValidFrame(data) ==
    /\ Len(data) > 0
    /\ \/ (data[1] = 0 /\ Len(data) >= 2 /\ data[2] \in {0, 1, 2})
       \/ (data[1] = 1 /\ Len(data) >= 2)

\* C14: when a reader reads a frame that passes the rate limiter and fails
\* validation, the broadcast queue, the member sets, the in-memory update
\* lists, the store and every outbound channel stay as they are, and the
\* session stays open, so its reader goes on to its next frame.
C14_InvalidFrameDropped ==
    [][\A c \in Clients :
          (/\ reads'[c] = reads[c] + 1
           /\ lastFrame'.fate # "refused"
           /\ ~IsValidFrame(lastFrame'.data))
          => /\ broadcast' = broadcast
             /\ rooms' = rooms
             /\ roomStates' = roomStates
             /\ storeVars' = storeVars
             /\ send' = send /\ wire' = wire
             /\ pc'[c] = "open"]_vars

\* C14 witness: session c1 read an invalid frame, which left no trace, and
\* then a valid frame, which the scheduler processed and session c2 received
C14_Witness ==
    /\ reads = [c \in Clients |-> IF c = "c1" THEN 2 ELSE 0]
    /\ lastFrame.client = "c1" /\ lastFrame.fate = "queued"
    /\ broadcast = <<>>
    /\ order["r1"] = <<lastFrame.data>>
    /\ roomID["c2"] = "r1"
    /\ \E i \in DOMAIN Outbound("c2") : Outbound("c2")[i].data = lastFrame.data

\* the updates room r holds: in its persisted log, in its snapshot and in its
\* in-memory list
HeldUpdates(r) ==
    {GetAllUpdates(r)[i] : i \in DOMAIN GetAllUpdates(r)}
    \cup {SplitMergedUpdates(GetSnapshot(r).data)[i] :
             i \in DOMAIN SplitMergedUpdates(GetSnapshot(r).data)}
    \cup (IF r \in DOMAIN roomStates
          THEN {roomStates[r].Updates[i] : i \in DOMAIN roomStates[r].Updates}
          ELSE {})

C16_FloodOf1100Terminates ==
    reads["c1"] >= 1100 => pc["c1"] = "left"

\* C16 as amended: of 1 100 frames sent back to back from a full bucket at most
\* 900 are refused and the session stays open and a member of its room; the
\* reader terminates the session at the 1 001st refused frame only, which takes
\* at least 1 201 frames.
C16_FloodNeeds1201 ==
    /\ (pc["c1"] # "new" /\ reads["c1"] <= 1100) =>
          /\ pc["c1"] = "open"
          /\ rateLimitWarnings["c1"] <= 900
          /\ "c1" \in MembersOf("r1")
          /\ send["c1"].closes = 0
    /\ pc["c1"] = "left" =>
          /\ rateLimitWarnings["c1"] = MaxRateLimitWarnings + 1
          /\ reads["c1"] >= 1201

\* C16 witness: the reader returned at the 1 201st frame, the 1 001st refused,
\* and the session was unregistered
C16_Witness ==
    /\ pc["c1"] = "left"
    /\ reads["c1"] = 1201
    /\ rateLimitWarnings["c1"] = 1001
    /\ "c1" \notin MembersOf("r1")
    /\ send["c1"].closes = 1

\* the version of room r inserted last (ids are given out in increasing
\* order), NoVersion when the room has none
NewestVersion(rows, r) ==
    LET vs == VersionsOf(rows, r)
    IN  IF vs = {} THEN NoVersion ELSE CHOOSE v \in vs : \A w \in vs : w.id <= v.id

\* the step answers a create request that was not refused with 400
CreateStep ==
    /\ resp'.n = resp.n + 1
    /\ resp'.op = "create"
    /\ resp'.status # 400

\* C17: a create request with isAuto whose content hash equals that of the
\* room's latest stored version inserts nothing, leaves the version count and
\* answers 200 with that latest row; every other create request (isAuto false
\* with the same content included) inserts exactly one row and answers 201
C17_AutoDedupOnLatest ==
    [][CreateStep =>
         LET r == resp'.room
             latest == NewestVersion(dbVersions, r)
         IN  IF /\ resp'.isAuto
                /\ latest # NoVersion
                /\ latest.content_hash = hashContent(resp'.content)
             THEN /\ resp'.status = 200
                  /\ resp'.version = latest
                  /\ dbVersions' = dbVersions
                  /\ dbNextVersionId' = dbNextVersionId
             ELSE /\ resp'.status = 201
                  /\ resp'.version.id = dbNextVersionId
                  /\ resp'.version.content = resp'.content
                  /\ dbNextVersionId' = dbNextVersionId + 1]_vars

\* the auto-versions among a set of versions
AutosIn(vs) == {v \in vs : v.is_auto}

\* the k versions of vs created last (all of vs when it has no more than k)
NewestK(vs, k) == {v \in vs : Cardinality({w \in vs : w.id > v.id}) < k}

\* C18: whatever version requests were served, a room holds at most
\* AutoVersionsKept (20 in the code) auto-versions; a create leaves in its room
\* the manual versions and the auto-versions created last, up to that number,
\* and leaves the versions of every other room
C18_AutoRetention ==
    [][/\ \A r \in Rooms :
            Cardinality(AutosIn(VersionsOf(dbVersions', r))) <= AutoVersionsKept
       /\ (CreateStep /\ resp'.status = 201) =>
            LET r == resp'.room
                held == VersionsOf(dbVersions, r) \cup {resp'.version}
            IN  /\ VersionsOf(dbVersions', r) =
                      (held \ AutosIn(held)) \cup NewestK(AutosIn(held), AutoVersionsKept)
                /\ \A q \in Rooms \ {r} :
                      VersionsOf(dbVersions', q) = VersionsOf(dbVersions, q)]_vars

\* the step answers a restore request
RestoreStep ==
    /\ resp'.n = resp.n + 1
    /\ resp'.op = "restore"

\* C19: restoring an existing version adds exactly one version, in the target's
\* room, manual, with an empty creator and the target's content and hash, and
\* answers with the new id and the target's content; the versions held before
\* (the target among them), the update log, the snapshots and the hub state are
\* left as they were.  Restoring an unknown id answers not-found and adds
\* nothing.
C19_RestoreAddsOneCopy ==
    [][RestoreStep =>
         LET target == GetVersion(resp'.restored_from)
             n == Len(dbVersions)
         IN  /\ UNCHANGED <<hubVars, clientVars, storeVars, cpc>>
             /\ IF target = NoVersion
                THEN /\ resp'.status = 404
                     /\ dbVersions' = dbVersions
                ELSE /\ resp'.status = 200
                     /\ Len(dbVersions') = n + 1
                     /\ SubSeq(dbVersions', 1, n) = dbVersions
                     /\ LET new == dbVersions'[n + 1]
                        IN  /\ new.id = resp'.new_version
                            /\ \A i \in 1..n : dbVersions[i].id # new.id
                            /\ new.room_id = target.room_id
                            /\ new.is_auto = FALSE
                            /\ new.created_by = ""
                            /\ new.content = target.content
                            /\ new.content_hash = target.content_hash
                     /\ resp'.content = target.content]_vars

\* an auto-version with a creator was restored in a room that has updates in
\* its log and a snapshot
C19_Witness ==
    /\ resp.op = "restore"
    /\ resp.status = 200
    /\ \E i \in DOMAIN dbVersions :
          /\ dbVersions[i].id = resp.restored_from
          /\ dbVersions[i].is_auto
          /\ dbVersions[i].created_by # ""
          /\ GetUpdateCount(dbVersions[i].room_id) > 0
          /\ GetSnapshot(dbVersions[i].room_id).count > 0
    /\ \E i \in DOMAIN dbVersions :
          /\ dbVersions[i].id = resp.new_version
          /\ ~dbVersions[i].is_auto

\* the contents of the entries of a diff whose type is in types, in order
SideOf(diff, types) ==
    LET OnSide(e) == e.type \in types
    IN  SelectSeq(diff, OnSide)

\* C20: in the diff of a and b, the unchanged and removed entries in output
\* order are the lines of a, the unchanged and added entries are the lines of
\* b, and the old and the new line numbers count 1, 2, 3, ... along their side
C20_DiffSidesAreInputs ==
    (call.fn = "diff" /\ call.stage = "done") =>
        LET oldSide == SideOf(call.result, {"unchanged", "removed"})
            newSide == SideOf(call.result, {"unchanged", "added"})
        IN  /\ [k \in 1..Len(oldSide) |-> oldSide[k].content] = StringsSplit(call.a)
            /\ [k \in 1..Len(newSide) |-> newSide[k].content] = StringsSplit(call.b)
            /\ \A k \in 1..Len(oldSide) : oldSide[k].old_line = k
            /\ \A k \in 1..Len(newSide) : newSide[k].new_line = k
            /\ \A k \in 1..Len(call.result) :
                  call.result[k].type \in {"unchanged", "removed", "added"}

\* a diff of two contents of two lines and more with a line kept, a line
\* removed and a line added
C20_Witness ==
    /\ call.fn = "diff" /\ call.stage = "done"
    /\ Len(StringsSplit(call.a)) >= 2
    /\ Len(StringsSplit(call.b)) >= 2
    /\ \A t \in {"unchanged", "removed", "added"} :
          \E k \in 1..Len(call.result) : call.result[k].type = t

\* the step answers a room deletion that was carried out
DeleteRoomStep ==
    /\ resp'.n = resp.n + 1
    /\ resp'.op = "delete_room"
    /\ resp'.status = 200

\* C21: after a room is deleted its row is absent and it has no update, no
\* snapshot and no version left (so a room created again under the id starts
\* with none)
C21_DeleteRoomCascades ==
    [][DeleteRoomStep =>
         LET r == resp'.id
         IN  /\ r \notin DOMAIN dbRooms'
             /\ RowCount(dbUpdates', r) = 0
             /\ r \notin DOMAIN dbSnapshots'
             /\ VersionsOf(dbVersions', r) = {}]_vars

\* the step answers a room creation
CreateRoomStep ==
    /\ resp'.n = resp.n + 1
    /\ resp'.op = "create_room"

\* C25: a room creation with an empty id is answered 400 and changes no room;
\* with an id it is answered 201, the room exists afterwards, no other room
\* changes, and a room that existed keeps its name and its timestamps
C25_CreateRoomIdempotent ==
    [][CreateRoomStep =>
         IF resp'.id = ""
         THEN resp'.status = 400 /\ dbRooms' = dbRooms
         ELSE /\ resp'.status = 201
              /\ resp'.id \in DOMAIN dbRooms'
              /\ resp'.room = dbRooms'[resp'.id]
              /\ DOMAIN dbRooms' = DOMAIN dbRooms \cup {resp'.id}
              /\ \A r \in DOMAIN dbRooms : dbRooms'[r] = dbRooms[r]
              /\ resp'.id \notin DOMAIN dbRooms =>
                    dbRooms'[resp'.id].name = resp'.name]_vars

\* a creation was repeated, a second later and under another name, for a room
\* that exists: the answer is 201 with the first name and the first timestamps
C25_Witness ==
    /\ resp.op = "create_room"
    /\ resp.status = 201
    /\ resp.name # resp.room.name
    /\ resp.room.created_at < now
    /\ resp.room.updated_at < now

\* the scheduler processes the unregister request of member c
UnregisterStep(c) ==
    /\ pc[c] = "left"
    /\ IsMember(c)
    /\ broadcast' = broadcast
    /\ send'[c].closes = send[c].closes + 1

\* the scheduler processes the register request of client c
RegisterStep(c) == pc[c] = "new" /\ pc'[c] = "open"

\* sequence s is the start of sequence t
IsPrefix(s, t) == Len(s) <= Len(t) /\ SubSeq(t, 1, Len(s)) = s

\* C22: when the scheduler processes the unregister request of a member, the
\* session leaves its room's member set and the entry goes when it was the last
\* member; a room's in-memory update list is never dropped or shortened, it is
\* left as it is by every register and unregister step and by an eviction (a
\* broadcast step adds at most the frame it processes); so a session that
\* registers is replayed the whole list the room holds, whoever left before.
C22_UnregisterKeepsUpdates ==
    [][/\ \A c \in Clients : UnregisterStep(c) =>
             LET r == roomID[c]
             IN  /\ IF rooms[r] = {c} THEN r \notin DOMAIN rooms'
                    ELSE r \in DOMAIN rooms' /\ rooms'[r] = rooms[r] \ {c}
                 /\ roomStates' = roomStates
       /\ \A r \in DOMAIN roomStates :
             /\ r \in DOMAIN roomStates'
             /\ IsPrefix(roomStates[r].Updates, roomStates'[r].Updates)
             /\ Len(roomStates'[r].Updates) <= Len(roomStates[r].Updates) + 1
             /\ ~BroadcastStep => roomStates'[r] = roomStates[r]
       /\ \A c \in Clients : RegisterStep(c) =>
             LET r == roomID'[c]
             IN  /\ caught'[c] = UpdatesBefore(r)
                 /\ caught'[c] = roomStates'[r].Updates]_vars

\* session c1 sent an update to room r1 and left, the scheduler closed its
\* channel and removed the room's entry with it, and session c2, the only
\* member now, was replayed the update at its registration
C22_Witness ==
    /\ pc["c1"] = "left" /\ send["c1"].closes = 1
    /\ pc["c2"] = "open" /\ roomID["c2"] = "r1"
    /\ rooms = MapPut(<<>>, "r1", {"c2"})
    /\ lastFrame.client = "c1" /\ lastFrame.fate = "queued"
    /\ Len(caught["c2"]) > 0
    /\ caught["c2"] = roomStates["r1"].Updates
    /\ reads["c2"] = 0

\* the rooms that have a registered client
RoomsWithClients == {r \in Rooms : MembersOf(r) # {}}

\* C23: the active-room count and the keys of the active-room map are the rooms
\* that have at least one registered client
C23_ActiveRoomsHaveClients ==
    /\ GetRoomCount = Cardinality(RoomsWithClients)
    /\ DOMAIN GetActiveRooms = RoomsWithClients

\* C24: a broadcast step for room X leaves every other room as it is: its
\* RoomState (none is created, dropped or changed), its persisted log, its
\* member set; it leaves the outbound channel of every session that is not a
\* member of X; and X keeps the RoomState it had, with at most the processed
\* frame appended.
C24_RoomIsolation ==
    [][BroadcastStep =>
         LET m == Head(broadcast)
             X == m.RoomID
         IN  /\ \A r \in Rooms \ {X} :
                   /\ (r \in DOMAIN roomStates') = (r \in DOMAIN roomStates)
                   /\ r \in DOMAIN roomStates => roomStates'[r] = roomStates[r]
                   /\ SelectData(dbUpdates', r) = SelectData(dbUpdates, r)
                   /\ (r \in DOMAIN rooms') = (r \in DOMAIN rooms)
                   /\ r \in DOMAIN rooms => rooms'[r] = rooms[r]
             /\ \A c \in Clients : c \notin MembersOf(X) => send'[c] = send[c]
             /\ X \in DOMAIN roomStates =>
                   roomStates'[X] \in {roomStates[X], AddUpdate(roomStates[X], m.Data)}]_vars

\* session c1 in room r1 and session c2 in room r2 each sent one update: each
\* room holds one update in memory and in its log, and neither session was
\* sent anything
C24_Witness ==
    /\ pc["c1"] = "open" /\ roomID["c1"] = "r1"
    /\ pc["c2"] = "open" /\ roomID["c2"] = "r2"
    /\ broadcast = <<>>
    /\ \A r \in Rooms :
          /\ r \in DOMAIN roomStates
          /\ Len(roomStates[r].Updates) = 1
          /\ GetAllUpdates(r) = roomStates[r].Updates
    /\ Outbound("c1") = <<>>
    /\ Outbound("c2") = <<>>

\* the number of entries of a list equal to u
Occurrences(list, u) == Cardinality({i \in DOMAIN list : list[i] = u})

\* C26: with AddUpdate called by several goroutines at once, beside a goroutine
\* calling GetUpdates, the list holds exactly one entry for each call that has
\* written and none for the others, so one entry per call once all returned;
\* what GetUpdates returned is a start of the list.
C26_ConcurrentAddsAllKept ==
    call.fn = "roomstate" =>
        /\ \A g \in Adders :
              Occurrences(call.Updates, <<g>>) =
                  (IF call.at[g] \in {"written", "done"} THEN 1 ELSE 0)
        /\ Len(call.Updates) =
              Cardinality({g \in Adders : call.at[g] \in {"written", "done"}})
        /\ IsPrefix(call.slice[Getter], call.Updates)

\* every call of AddUpdate has returned, and GetUpdates returned in between
C26_Witness ==
    /\ call.fn = "roomstate"
    /\ \A g \in Adders : call.at[g] = "done"
    /\ call.at[Getter] = "done"
    /\ Len(call.slice[Getter]) \in 1..(MaxAdders - 1)
    /\ Len(call.Updates) = MaxAdders

\* the compaction pass runs its truncation
TruncationStep == cpc.state = "saved" /\ cpc' = CompactIdle

\* C27: whatever was appended to the room between the pass's read of the log,
\* its snapshot write and its truncation, the updates the truncation deletes
\* (the oldest of the log) are all in the snapshot the pass wrote: they are a
\* start of the updates the snapshot splits into.
C27_TruncatedAreInSnapshot ==
    [][TruncationStep =>
         LET r == cpc.room
             before == SelectData(dbUpdates, r)
             after == SelectData(dbUpdates', r)
             deleted == SubSeq(before, 1, Len(before) - Len(after))
         IN  IsPrefix(deleted, SplitMergedUpdates(GetSnapshot(r).data))]_vars

\* C28: the retained updates delivered to a registering session are a start
\* of the room's retained list: the catch-up frames put on its outbound
\* channel are the first, the second, ... of the list with none left out
\* before one that was put, also while its writer drains the channel.
C28_CatchUpIsPrefix ==
    \A c \in Clients :
        \A i \in DOMAIN Outbound(c) :
            Outbound(c)[i].src = "catchup" =>
                /\ Outbound(c)[i].idx = i
                /\ Outbound(c)[i].data = caught[c][i]

\* the scheduler processes a frame it stores: SaveUpdate is called
SaveUpdateStep == BroadcastStep /\ IsStored(Head(broadcast).Data)

\* C29: a call of SaveUpdate either returns nil with the room present, the
\* update inserted as the room's newest row and the room's updated_at
\* refreshed, or returns an error with the tables rooms and document_updates
\* as they were.
C29_SaveUpdateAtomic ==
    [][SaveUpdateStep =>
         LET m == Head(broadcast)
             r == m.RoomID
         IN  IF ~lastErr'
             THEN /\ r \in DOMAIN dbRooms'
                  /\ dbRooms'[r].updated_at = now
                  /\ dbUpdates' = InsertUpdate(dbUpdates, dbNextId, r, m.Data)
             ELSE /\ dbRooms' = dbRooms
                  /\ dbUpdates' = dbUpdates]_vars

\* the reader of session c reads a frame that its limiter refuses
RefusedStep(c) ==
    /\ reads'[c] = reads[c] + 1
    /\ lastFrame'.client = c
    /\ lastFrame'.fate = "refused"

\* what a refusal does when the reader returns at the exitAt-th refusal: the
\* frame is not validated, not put on h.broadcast, not stored and not delivered,
\* the count of refusals goes up by one, and the session stays open before the
\* exitAt-th refusal and its reader returns at it; no step lowers the count,
\* and a frame that is not refused leaves it alone
RefusalHandling(c, exitAt) ==
    /\ rateLimitWarnings'[c] >= rateLimitWarnings[c]
    /\ (reads'[c] = reads[c] + 1 /\ ~RefusedStep(c)) =>
          rateLimitWarnings'[c] = rateLimitWarnings[c]
    /\ RefusedStep(c) =>
          /\ rateLimitWarnings'[c] = rateLimitWarnings[c] + 1
          /\ UNCHANGED <<broadcast, validated, roomStates, rooms, send, wire>>
          /\ UNCHANGED storeVars
          /\ pc'[c] = IF rateLimitWarnings'[c] >= exitAt THEN "left" ELSE "open"

\* C30 as claimed: a refused frame is dropped before validation and is never
\* enqueued, stored or delivered; the count of refusals is never reset; the
\* session stays open until the count reaches 1 000, and at the step that
\* brings the count to 1 000 the reader returns.
C30_ReaderReturnsAt1000 ==
    [][\A c \in Clients : RefusalHandling(c, 1000)]_vars

\* C30 as amended: a refused frame is dropped before validation and is never
\* enqueued, stored or delivered; the count of refusals is never reset; the
\* session stays open through the 1 000th refusal, and the reader returns at
\* the 1 001st, when the count exceeds 1 000.
C30_ReaderReturnsPast1000 ==
    [][\A c \in Clients : RefusalHandling(c, 1001)]_vars

\* C30 witness: after a refill of one token the 1 202nd frame was the 1 001st
\* refused, nothing is queued for the scheduler, the reader returned and the
\* session was unregistered
C30_Witness ==
    /\ lastFrame.client = "c1" /\ lastFrame.fate = "refused"
    /\ reads["c1"] = 1202
    /\ rateLimitWarnings["c1"] = 1001
    /\ broadcast = <<>>
    /\ pc["c1"] = "left"
    /\ "c1" \notin MembersOf("r1")

\* C31: when SaveUpdate fails for a sync frame the scheduler processes, the
\* frame is still appended to the room's in-memory update list and offered to
\* every other member as on success (enqueued where the buffer has room, the
\* member evicted where it has none); a frame processed after a failure is
\* stored in memory and, when its SaveUpdate returns nil, persisted.
C31_FailedAppendStillBroadcasts ==
    [][(SaveUpdateStep /\ (lastErr' \/ lastErr)) =>
         LET m == Head(broadcast)
             r == m.RoomID
         IN  /\ r \in DOMAIN roomStates'
             /\ roomStates'[r].Updates = Append(UpdatesBefore(r), m.Data)
             /\ \A c \in Clients :
                   IF c \in MembersOf(r) /\ c # m.Sender
                   THEN IF Len(send[c].buf) < SendCap
                        THEN /\ Len(send'[c].buf) = Len(send[c].buf) + 1
                             /\ Last(send'[c].buf).data = m.Data
                             /\ c \in rooms'[r]
                        ELSE /\ send'[c].closes = send[c].closes + 1
                             /\ c \notin rooms'[r]
                   ELSE send'[c] = send[c]
             /\ ~lastErr' => dbUpdates' = InsertUpdate(dbUpdates, dbNextId, r, m.Data)]_vars

\* C31 witness: the first sync frame of room r1 failed to persist and the
\* second was persisted; both are in the room's update list and both reached
\* the other member in that order
C31_Witness ==
    /\ Len(order["r1"]) = 2
    /\ IsStored(order["r1"][1]) /\ IsStored(order["r1"][2])
    /\ GetAllUpdates("r1") = <<order["r1"][2]>>
    /\ roomStates["r1"].Updates = order["r1"]
    /\ \E c \in Clients :
          /\ Len(Outbound(c)) = 2
          /\ \A i \in 1..2 : Outbound(c)[i].src = "live"
                             /\ Outbound(c)[i].data = order["r1"][i]

\* C32: between the snapshot upsert of a pass and its truncation, and when
\* the pass ends there without truncating, the room's log still holds every
\* update the pass read, in order, and the snapshot expands to exactly those
\* updates; after such an end the log is still at the threshold, so the next
\* pass compacts the room again.
C32_SnapshotBeforeTruncate ==
    /\ cpc.state = "saved" =>
          /\ IsPrefix(cpc.updates, GetAllUpdates(cpc.room))
          /\ SplitMergedUpdates(GetSnapshot(cpc.room).data) = cpc.updates
    /\ (cpc = CompactIdle /\ call = NoCall) =>
          \A r \in Rooms :
             (r \in DOMAIN dbSnapshots /\ passes[r] = 0) =>
                /\ IsPrefix(SplitMergedUpdates(GetSnapshot(r).data), GetAllUpdates(r))
                /\ GetAllUpdates(r) = appended[r]
                /\ GetUpdateCount(r) >= UpdateThreshold

\* C32 witness: a pass ended after its snapshot upsert without truncating,
\* the log holds every update appended and the snapshot expands to all of them
C32_Witness ==
    /\ cpc = CompactIdle
    /\ "r1" \in DOMAIN dbSnapshots /\ passes["r1"] = 0
    /\ Len(appended["r1"]) >= UpdateThreshold
    /\ GetAllUpdates("r1") = appended["r1"]
    /\ SplitMergedUpdates(GetSnapshot("r1").data) = appended["r1"]

\* the sync frame the scheduler processes for room r in this step, if any
SyncFrameFor(r) ==
    IF BroadcastStep /\ Head(broadcast).RoomID = r
                     /\ Len(Head(broadcast).Data) > 0
                     /\ Head(broadcast).Data[1] = MessageSync
    THEN <<Head(broadcast).Data>>
    ELSE <<>>

\* C33: the step that first gives a room a cached state sets its update list
\* to the expanded snapshot followed by the rows of the log in id order (and
\* the sync frame being processed, if that is the step); a cached state is
\* never dropped or loaded again: from then on the list grows by exactly the
\* sync frames the scheduler processes for the room, whatever the store holds.
C33_LoadedOnceThenAppended ==
    [][\A r \in Rooms :
          /\ (r \notin DOMAIN roomStates /\ r \in DOMAIN roomStates') =>
                roomStates'[r].Updates =
                    SplitMergedUpdates(GetSnapshot(r).data)
                        \o SelectData(dbUpdates, r) \o SyncFrameFor(r)
          /\ r \in DOMAIN roomStates =>
                /\ r \in DOMAIN roomStates'
                /\ roomStates'[r].Updates = roomStates[r].Updates \o SyncFrameFor(r)]_vars

\* C33 witness: room r1 was loaded after a compaction pass from a snapshot and
\* a log tail, a sync frame was broadcast since, and the list is the expanded
\* snapshot, the tail and the frame
C33_Witness ==
    /\ passes["r1"] = 1 /\ cpc = CompactIdle
    /\ "r1" \in DOMAIN roomStates
    /\ Len(order["r1"]) = 1 /\ IsStored(order["r1"][1])
    /\ Len(SplitMergedUpdates(GetSnapshot("r1").data)) >= UpdateThreshold
    /\ roomStates["r1"].Updates =
          SplitMergedUpdates(GetSnapshot("r1").data) \o GetAllUpdates("r1")
    /\ Last(GetAllUpdates("r1")) = order["r1"][1]
    /\ Len(GetAllUpdates("r1")) > 1

\* C34: when handleRegister completes the session is a member of its room and
\* its outbound channel is open and holds the first catch-up frames that fit,
\* however many more were dropped; a member's channel is closed, and the member
\* removed, only by the step of a live broadcast or by its own unregistration.
C34_CatchUpNeverEvicts ==
    [][\A c \in Clients :
          /\ RegisterStep(c) =>
                /\ c \in MembersOf(roomID[c])'
                /\ send'[c].closes = 0
                /\ Len(send'[c].buf) =
                      IF Len(caught'[c]) < SendCap THEN Len(caught'[c]) ELSE SendCap
                /\ \A i \in DOMAIN send'[c].buf : send'[c].buf[i].data = caught'[c][i]
          /\ (IsMember(c) /\ (~IsMember(c)' \/ send'[c].closes > send[c].closes)) =>
                (BroadcastStep \/ UnregisterStep(c))]_vars

\* C34 witness: the room held more updates than the buffer takes when session
\* c1 registered, the surplus was dropped, and c1 is a member with an open
\* channel
C34_Witness ==
    /\ pc["c1"] = "open"
    /\ Len(caught["c1"]) > SendCap
    /\ Len(send["c1"].buf) = SendCap
    /\ send["c1"].closes = 0
    /\ "c1" \in MembersOf("r1")

\* the number of messages the scheduler has taken off h.broadcast
Processed == Len(order["r1"]) + Len(order["r2"])

\* C35: under a scheduler that keeps running, a session whose reader has
\* returned is eventually out of its room's member set with its outbound
\* channel closed, and a message queued on h.broadcast is eventually
\* processed even when no session's outbound channel is ever drained.
C35_ReaderExitLeadsToUnregister ==
    /\ \A c \in Clients :
          (pc[c] = "left") ~> (c \notin MembersOf(roomID[c]) /\ send[c].closes = 1)
    /\ \A n \in 0..(MaxFrames + 1) :
          (broadcast # <<>> /\ Processed = n) ~> (Processed > n)

\* C35 witness: the channel of session c1 was full and never drained when a
\* broadcast of session c2 was processed; the reader of c1 returned, and c1 is
\* out of the member set with its channel closed; the scheduler processed
\* every message queued
C35_Witness ==
    /\ pc["c1"] = "left"
    /\ "c1" \notin MembersOf("r1")
    /\ send["c1"].closes = 1
    /\ Len(send["c1"].buf) = SendCap /\ wire["c1"] = <<>>
    /\ ~HoldsLive("c1", Len(order["r1"]))
    /\ broadcast = <<>> /\ Processed = sent /\ sent = MaxFrames

\* C36: when the scheduler processes a frame whose sender is no longer a
\* member of the room (evicted or unregistered since it enqueued the frame, or
\* evicted before), a sync frame is still appended to the room's update list,
\* every member with room in its buffer gets the frame, and the sender's
\* outbound channel is untouched.
C36_SenderMembershipNotChecked ==
    [][BroadcastStep =>
         LET m == Head(broadcast)
             r == m.RoomID
         IN  (m.Sender \in Clients /\ m.Sender \notin MembersOf(r)) =>
                /\ IsStored(m.Data) =>
                      /\ r \in DOMAIN roomStates'
                      /\ roomStates'[r].Updates = Append(UpdatesBefore(r), m.Data)
                /\ \A c \in MembersOf(r) :
                      Len(send[c].buf) < SendCap =>
                         /\ Len(send'[c].buf) = Len(send[c].buf) + 1
                         /\ Last(send'[c].buf).data = m.Data
                /\ send'[m.Sender] = send[m.Sender]]_vars

\* C36 witness: session c was evicted by the first frame, which d sent, while
\* its reader still ran; the second frame, which c sent after that, is in the
\* room's update list and reached d, and did not reach c
C36_Witness ==
    \E c \in Clients, d \in Clients :
        /\ c # d
        /\ pc[c] = "open" /\ send[c].closes = 1 /\ c \notin MembersOf("r1")
        /\ d \in MembersOf("r1")
        /\ Len(order["r1"]) = 2
        /\ HoldsLive(d, 2) /\ ~HoldsLive(d, 1) /\ ~HoldsLive(c, 2)
        /\ Last(Outbound(d)).data = order["r1"][2]
        /\ Len(roomStates["r1"].Updates) = Len(PreUpdates) + 2
        /\ Last(roomStates["r1"].Updates) = order["r1"][2]

\* the number of sync frames among the first k frames processed for room r
SyncRank(r, k) == Cardinality({j \in 1..k : IsStored(order[r][j])})

\* the number of updates the room's list was loaded with
LoadedCount(r) == Len(roomStates[r].Updates) - SyncRank(r, Len(order[r]))

\* the places in c's outbound traffic where the catch-up put the n-th update
\* of the list
ViaCatchUp(c, n) ==
    {i \in DOMAIN Outbound(c) : Outbound(c)[i].src = "catchup" /\ Outbound(c)[i].idx = n}

\* the places in c's outbound traffic where the fan-out put the k-th frame
\* processed
ViaLive(c, k) ==
    {i \in DOMAIN Outbound(c) : Outbound(c)[i].src = "live" /\ Outbound(c)[i].idx = k}

\* C37: every sync frame the scheduler has processed for a session's room was
\* enqueued for the session at most once: by catch-up only when it was in the
\* room's update list when the session registered, by live fan-out only when
\* it was processed later.
C37_SyncFrameAtMostOnce ==
    \A c \in Clients :
        pc[c] # "new" =>
            LET r == roomID[c]
            IN  \A k \in DOMAIN order[r] :
                    IsStored(order[r][k]) =>
                        LET n == LoadedCount(r) + SyncRank(r, k)
                        IN  /\ roomStates[r].Updates[n] = order[r][k]
                            /\ Cardinality(ViaCatchUp(c, n)) + Cardinality(ViaLive(c, k)) <= 1
                            /\ n <= Len(caught[c]) => ViaLive(c, k) = {}
                            /\ n > Len(caught[c]) => ViaCatchUp(c, n) = {}

\* C37 witness: a session registered after the first sync frame of its room
\* was processed and before the second: it got the first by catch-up and the
\* second by live fan-out, each once
C37_Witness ==
    \E c \in Clients :
        /\ pc[c] # "new"
        /\ Len(order[roomID[c]]) >= 2
        /\ IsStored(order[roomID[c]][1]) /\ IsStored(order[roomID[c]][2])
        /\ Len(caught[c]) = 1
        /\ Cardinality(ViaCatchUp(c, 1)) = 1 /\ ViaLive(c, 1) = {}
        /\ Cardinality(ViaLive(c, 2)) = 1 /\ ViaCatchUp(c, 2) = {}

\* C38: the scheduler never sends on or closes a channel it has closed (the
\* scheduler goroutine never panics); every session in a member set has an
\* open outbound channel; and no step enqueues a frame for a session whose
\* channel is closed.
C38_NoSendOnClosedChannel ==
    /\ [](~panicked /\ \A c \in Clients : IsMember(c) => send[c].closes = 0)
    /\ [][\A c \in Clients :
             send[c].closes > 0 => Outbound(c)' = Outbound(c)]_vars

\* C38 witness: session c was evicted by the first frame d sent, d sent a
\* second frame after that, and c's outbound traffic holds its catch-up
\* frames only
C38_Witness ==
    \E c \in Clients, d \in Clients :
        /\ c # d /\ ~panicked
        /\ pc[c] = "open" /\ send[c].closes = 1 /\ c \notin MembersOf("r1")
        /\ d \in MembersOf("r1") /\ send[d].closes = 0
        /\ Len(order["r1"]) = 2
        /\ Len(caught[c]) = Len(PreUpdates)
        /\ \A i \in DOMAIN Outbound(c) : Outbound(c)[i].src = "catchup"
        /\ ~HoldsLive(d, 1) /\ ~HoldsLive(d, 2)

\* C39: when a read of the store failed while a room was loaded for a
\* registering session, the room was loaded empty (its update list holds only
\* the sync frames broadcast since), the session is registered with an open
\* channel, and the scheduler has not stopped.
C39_FailedLoadLeavesRoomEmpty ==
    call.fn = "getRoomState" =>
        /\ LoadedCount(call.room) = 0
        /\ \A c \in Clients : pc[c] = "open" => (IsMember(c) \/ send[c].closes = 1)
        /\ ~panicked

\* the reader of session c reads a frame of the given size
SizedReadStep(c, size) ==
    /\ reads'[c] = reads[c] + 1
    /\ lastFrame'.client = c
    /\ lastFrame'.size = size

\* C40: a valid frame of exactly 1 MiB that the limiter allows is put on
\* h.broadcast; a frame of 1 MiB + 1 bytes is dropped and the session
\* continues: nothing is put on h.broadcast, the reader keeps running and the
\* session stays a member of its room.
C40_OversizedFrameDropped ==
    [][\A c \in Clients :
          /\ (SizedReadStep(c, maxMessageSize) /\ validateYjsMessage(lastFrame'.data)
                /\ tokens[c] >= TokenScale) =>
                /\ lastFrame'.fate = "queued"
                /\ broadcast' = Append(broadcast,
                       [RoomID |-> roomID[c], Data |-> lastFrame'.data, Sender |-> c])
          /\ SizedReadStep(c, maxMessageSize + 1) =>
                /\ broadcast' = broadcast
                /\ pc'[c] = "open"
                /\ IsMember(c)']_vars

====
